---- MODULE Spec2Model ----
(***************************************************************************)
(* Verification model of the quic-websocket native-mode server:            *)
(*   client.rs   ClientManager (the session registry)                      *)
(*   handler.rs  MessageHandler (the per-message handlers)                 *)
(*   server.rs   QuicWebSocketServer (connection and stream tasks, reaper) *)
(*                                                                         *)
(* A connection slot c stands for one accepted QUIC connection; the Uuid   *)
(* that handle_connection draws for it (Uuid::new_v4, never repeated) is   *)
(* the slot number itself.  Every ClientManager method takes the registry  *)
(* lock for its whole body, so each method call is one atomic step; the    *)
(* awaits between two calls of a handler are where other tasks interleave. *)
(*                                                                         *)
(* last is a history variable: it records which step was taken last and    *)
(* the task and registry that step started from, so that what one step     *)
(* does can be stated as a property of the state it leads to.              *)
(***************************************************************************)
EXTENDS Integers, Sequences, FiniteSets, TLC

\* ------------------------------------------------------------------ bounds
MaxConns == 3          \* connections accepted during one run
MaxClients == 2        \* the max_clients the server was started with
MaxTasks == 1          \* stream tasks alive at the same time

Conns == 1..MaxConns
Tasks == 1..MaxTasks
max_clients == MaxClients

None == "None"
Names == {"Alice"}
Versions == {"1.0", "0.9"}
protocol_version == "1.0"
server_name == "QUIC WebSocket Server"
MaxMessageLen == 1048576      \* handle_stream: 1024 * 1024
INVALID_MESSAGE == 1001
CLIENT_NOT_FOUND == 1002
POLICY_VIOLATION == 1008

VARIABLES
    clients,      \* ClientManager.clients: id -> ClientConnection
    conn_pc,      \* position of handle_connection for each connection
    admitted,     \* what add_client returned to handle_connection
    close_reason, \* Connection::close_reason() of each connection
    tasks,        \* the spawned handle_stream tasks
    last,         \* the step taken last and what it started from
    h3,           \* H3WebSocketServer: its connections and request streams
    wire,         \* a WebSocket frame, its encoding and what parse makes of it
    bus,          \* the broadcast channel of the ClientManager
    rw,           \* the RwLock of ClientManager.clients and the calls under way
    net           \* the mode of the server, its ALPN list and the connections

vars == <<clients, conn_pc, admitted, close_reason, tasks, last, h3, wire, bus, rw, net>>

\* the state of the native-mode server, and the rest
native == <<clients, conn_pc, admitted, close_reason, tasks>>
others == <<h3, wire, bus, rw, net>>

\* ------------------------------------------------------------ the registry
Ids(cl) == DOMAIN cl

Without(cl, id) == [i \in Ids(cl) \ {id} |-> cl[i]]

With(cl, id, rec) == [i \in Ids(cl) \cup {id} |-> IF i = id THEN rec ELSE cl[i]]

\* ClientConnection::new
NewClient(id) ==
    [id |-> id, name |-> None, state |-> "Connecting", message_count |-> 0,
     subscriptions |-> {}]

\* ClientManager::add_client
add_client_off_by_one(cl, id) ==
    IF Cardinality(Ids(cl)) > max_clients
    THEN [ok |-> FALSE, clients |-> cl]
    ELSE [ok |-> TRUE, clients |-> With(cl, id, NewClient(id))]

add_client(cl, id) ==
    IF Cardinality(Ids(cl)) >= max_clients
    THEN [ok |-> FALSE, clients |-> cl]
    ELSE [ok |-> TRUE, clients |-> With(cl, id, NewClient(id))]

\* ClientManager::remove_client
remove_client_all(cl, id) ==
    IF id \in Ids(cl) THEN [i \in {} |-> cl[i]] ELSE cl

remove_client_keeps(cl, id) == cl

remove_client(cl, id) ==
    IF id \in Ids(cl) THEN Without(cl, id) ELSE cl

\* ClientManager::get_client (is_some)
get_client(cl, id) == id \in Ids(cl)

\* ClientManager::update_client_state
update_client_state_inserts(cl, id, state) ==
    With(cl, id, [(IF id \in Ids(cl) THEN cl[id] ELSE NewClient(id)) EXCEPT !.state = state])

update_client_state(cl, id, state) ==
    IF id \in Ids(cl) THEN [cl EXCEPT ![id].state = state] ELSE cl

\* ClientManager::set_client_name
set_client_name(cl, id, name) ==
    IF id \in Ids(cl) THEN [cl EXCEPT ![id].name = name] ELSE cl

\* ClientInfo of every registered client (get_all_clients / get_info)
get_all_clients(cl) == {[id |-> i, name |-> cl[i].name] : i \in Ids(cl)}

\* ClientManager::client_count
client_count(cl) == Cardinality(Ids(cl))

\* Connection::close_reason(): NoReason while the connection is open.
NoReason == [by |-> "none"]
ServerFull == [by |-> "server", code |-> POLICY_VIOLATION, reason |-> "Server full"]
\* ApplicationClosed, TimedOut, Reset ...: the code only asks is_some()
PeerReasons == {[by |-> "peer"]}

IsClosed(cr, id) == cr[id].by # "none"

\* ClientConnection::send_message: open_uni and the writes fail once the
\* connection has a close reason.  One attempt is one record of the log.
send_message(cr, id, frame) ==
    [to |-> id, frame |-> frame, ok |-> ~IsClosed(cr, id)]

\* ClientManager::send_to_client: out is what was written, ok is Ok(())
send_to_client_connected_only(cl, cr, id, frame) ==
    IF id \in Ids(cl) /\ cl[id].state = "Connected"
    THEN LET a == send_message(cr, id, frame) IN [out |-> <<a>>, ok |-> a.ok]
    ELSE [out |-> <<>>, ok |-> TRUE]

send_to_client(cl, cr, id, frame) ==
    IF id \in Ids(cl)
    THEN LET a == send_message(cr, id, frame) IN [out |-> <<a>>, ok |-> a.ok]
    ELSE [out |-> <<>>, ok |-> TRUE]

\* the values of a HashMap, visited one after the other
RECURSIVE Values(_)
Values(S) ==
    IF S = {} THEN <<>>
    ELSE LET m == CHOOSE x \in S : \A y \in S : x <= y
         IN <<m>> \o Values(S \ {m})

RECURSIVE CountOk(_)
CountOk(out) ==
    IF out = <<>> THEN 0
    ELSE (IF Head(out).ok THEN 1 ELSE 0) + CountOk(Tail(out))

RECURSIVE UntilFailure(_)
UntilFailure(out) ==
    IF out = <<>> THEN <<>>
    ELSE IF ~Head(out).ok THEN <<Head(out)>>
         ELSE <<Head(out)>> \o UntilFailure(Tail(out))

\* ClientManager::broadcast_message: out is the attempts, count is Ok(sent_count)
broadcast_message_stops_at_failure(cl, cr, frame) ==
    LET targets == {i \in Ids(cl) : cl[i].state = "Connected"}
        order == Values(targets)
        out == UntilFailure([k \in 1..Len(order) |-> send_message(cr, order[k], frame)])
    IN [out |-> out, count |-> CountOk(out)]

broadcast_message(cl, cr, frame) ==
    LET targets == {i \in Ids(cl) : cl[i].state = "Connected"}
        order == Values(targets)
        out == [k \in 1..Len(order) |-> send_message(cr, order[k], frame)]
    IN [out |-> out, count |-> CountOk(out)]

\* ClientManager::cleanup_disconnected_clients
cleanup_disconnected_clients_keeps(cl, cr) ==
    LET to_remove == {i \in Ids(cl) : IsClosed(cr, i)}
    IN [clients |-> cl, removed_count |-> Cardinality(to_remove)]

cleanup_disconnected_clients(cl, cr) ==
    LET to_remove == {i \in Ids(cl) : IsClosed(cr, i)}
    IN [clients |-> [i \in Ids(cl) \ to_remove |-> cl[i]],
        removed_count |-> Cardinality(to_remove)]

\* ------------------------------------------------- the registry's topics
\* client.rs of this tree has no subscribe_topics, unsubscribe_topics or
\* push_to_subscribers, which handler.rs and server.rs call; they are
\* written here as the specification describes them: subscriptions is a set
\* of topics of the session record, changed only while the session is
\* Connected, and a push goes to the Connected sessions that hold the topic.
Range(seq) == {seq[k] : k \in 1..Len(seq)}

subscribe_topics_replaces(cl, id, topics) ==
    IF id \in Ids(cl) /\ cl[id].state = "Connected"
    THEN [cl EXCEPT ![id].subscriptions = Range(topics)]
    ELSE cl

subscribe_topics(cl, id, topics) ==
    IF id \in Ids(cl) /\ cl[id].state = "Connected"
    THEN [cl EXCEPT ![id].subscriptions = @ \cup Range(topics)]
    ELSE cl

unsubscribe_topics(cl, id, topics) ==
    IF id \in Ids(cl) /\ cl[id].state = "Connected"
    THEN [cl EXCEPT ![id].subscriptions = @ \ Range(topics)]
    ELSE cl

push_to_subscribers_to_all(cl, cr, topic, frame) ==
    broadcast_message(cl, cr, frame)

push_to_subscribers(cl, cr, topic, frame) ==
    LET targets == {i \in Ids(cl) : cl[i].state = "Connected"
                                      /\ topic \in cl[i].subscriptions}
        order == Values(targets)
        out == [k \in 1..Len(order) |-> send_message(cr, order[k], frame)]
    IN [out |-> out, count |-> CountOk(out)]

\* --------------------------------------------------------------- messages
NoMsg == [type |-> "None"]

\* MessageType, without the timestamps and the frame's own Uuid
Handshake(client_name, version) ==
    [type |-> "Handshake", client_name |-> client_name, protocol_version |-> version]
HandshakeResponse(client_id, sname, accepted, reason) ==
    [type |-> "HandshakeResponse", client_id |-> client_id, server_name |-> sname,
     accepted |-> accepted, reason |-> reason]
Text(content) == [type |-> "Text", content |-> content]
Binary(data) == [type |-> "Binary", data |-> data]
Broadcast(from, content) == [type |-> "Broadcast", from |-> from, content |-> content]
DirectMessage(from, to, content) ==
    [type |-> "DirectMessage", from |-> from, to |-> to, content |-> content]
Ping == [type |-> "Ping"]
Pong == [type |-> "Pong"]
ListClients == [type |-> "ListClients"]
ClientList(infos) == [type |-> "ClientList", clients |-> infos]
Close(code, reason) == [type |-> "Close", code |-> code, reason |-> reason]
Error(code, message) == [type |-> "Error", code |-> code, message |-> message]
ServerPush(topic, content) == [type |-> "ServerPush", topic |-> topic, content |-> content]
Subscribe(topics) == [type |-> "Subscribe", topics |-> topics]
Unsubscribe(topics) == [type |-> "Unsubscribe", topics |-> topics]

\* the `from` a client writes into its own Broadcast or DirectMessage, here
\* one that is no session's id; the handlers drop it (`..` in the match)
Forged == 0

\* what a client may put on a stream
Inbound ==
    {Handshake(n, v) : n \in Names \cup {None}, v \in Versions}
    \cup {Text("hi"), Binary("bytes"), Ping, Pong, ListClients, Close(1000, "bye")}
    \cup {Broadcast(Forged, "hello all")}
    \cup {DirectMessage(Forged, to, "psst") : to \in Conns}
    \cup {ServerPush("stocks", "fake")}

\* the variants of MessageType, which bincode can decode
MessageTypes ==
    {"Handshake", "HandshakeResponse", "Text", "Binary", "Broadcast", "DirectMessage",
     "Ping", "Pong", "ListClients", "ClientList", "Close", "Error",
     "Subscribe", "Unsubscribe", "ServerPush"}

\* bytes that are no encoding of a MessageFrame
Garbage == [type |-> "Garbage"]

\* MessageFrame::from_bytes: the frame, or None when bincode fails
from_bytes(payload) == IF payload.type \in MessageTypes THEN payload ELSE NoMsg

\* ---------------------------------------------------------------- streams
\* One inbound uni stream: how many bytes of the length prefix arrive before
\* the stream ends, the u32 the prefix holds, how many payload bytes arrive,
\* and what they are.
Stream(prefix, len, body, payload) ==
    [prefix |-> prefix, len |-> len, body |-> body, payload |-> payload]

NoStream == Stream(0, 0, 0, NoMsg)

\* a frame written as the clients write it (length prefix, then all the bytes)
Framed(m) == Stream(4, 64, 64, m)

BadStreams ==
    {Stream(4, MaxMessageLen, MaxMessageLen, Text("1 MiB")),   \* exactly the limit
     Stream(4, MaxMessageLen + 1, MaxMessageLen + 1, Text("too big")),
     Stream(4, 2147483647, 0, Garbage),                        \* a huge length announced
     Stream(4, 64, 64, Garbage),                               \* does not decode
     Stream(4, 64, 10, Ping),                                  \* ends before len bytes
     Stream(2, 0, 0, Ping)}                                    \* ends inside the prefix

Streams == {Framed(m) : m \in Inbound} \cup BadStreams

\* ------------------------------------------------------- handler.rs steps
\* Every operator below is one stretch of a handler between two awaits on
\* the registry: it returns the registry after it, the writes it attempted
\* (out), whether it returned Ok (ok) and where the handler continues (pc).
Res(cl, out, ok, pc) == [clients |-> cl, out |-> out, ok |-> ok, pc |-> pc]

UnsupportedVersion(version) ==
    <<"Unsupported protocol version: ", version, ". Expected: ", protocol_version>>

\* MessageHandler::handle_handshake, up to the `?` after send_to_client
handle_handshake_resets(cl, cr, id, client_name, version) ==
    LET accepted == (version = protocol_version)
        reason == IF ~accepted THEN UnsupportedVersion(version) ELSE <<>>
        response == HandshakeResponse(id, server_name, accepted, reason)
        s == send_to_client(cl, cr, id, response)
    IN IF ~s.ok THEN Res(cl, s.out, FALSE, "done")
       ELSE IF accepted
            THEN Res(cl, s.out, TRUE, IF client_name # None THEN "set_name" ELSE "set_state")
            ELSE Res(update_client_state(cl, id, "Connecting"), s.out, TRUE, "done")

handle_handshake_ignores_error(cl, cr, id, client_name, version) ==
    LET accepted == (version = protocol_version)
        reason == IF ~accepted THEN UnsupportedVersion(version) ELSE <<>>
        response == HandshakeResponse(id, server_name, accepted, reason)
        s == send_to_client(cl, cr, id, response)
    IN IF accepted
       THEN Res(cl, s.out, TRUE, IF client_name # None THEN "set_name" ELSE "set_state")
       ELSE Res(cl, s.out, TRUE, "done")

handle_handshake(cl, cr, id, client_name, version) ==
    LET accepted == (version = protocol_version)
        reason == IF ~accepted THEN UnsupportedVersion(version) ELSE <<>>
        response == HandshakeResponse(id, server_name, accepted, reason)
        s == send_to_client(cl, cr, id, response)
    IN IF ~s.ok THEN Res(cl, s.out, FALSE, "done")
       ELSE IF accepted
            THEN Res(cl, s.out, TRUE, IF client_name # None THEN "set_name" ELSE "set_state")
            ELSE Res(cl, s.out, TRUE, "done")

\* handle_handshake: set_client_name(client_id, name)
handshake_set_name(cl, id, client_name) ==
    Res(set_client_name(cl, id, client_name), <<>>, TRUE, "set_state")

\* handle_handshake: update_client_state(client_id, ClientState::Connected)
handshake_set_state_skipped(cl, id) ==
    Res(cl, <<>>, TRUE, "done")

handshake_set_state(cl, id) ==
    Res(update_client_state(cl, id, "Connected"), <<>>, TRUE, "done")

\* MessageHandler::handle_text_message
handle_text_message(cl, cr, id, content) ==
    LET s == send_to_client(cl, cr, id, Text(<<"Echo: ", content>>))
    IN Res(cl, s.out, s.ok, "done")

\* MessageHandler::handle_binary_message
handle_binary_message_to_all(cl, cr, id, data) ==
    LET b == broadcast_message(cl, cr, Binary(data))
    IN Res(cl, b.out, TRUE, "done")

handle_binary_message(cl, cr, id, data) ==
    LET s == send_to_client(cl, cr, id, Binary(data))
    IN Res(cl, s.out, s.ok, "done")

\* MessageHandler::handle_ping
handle_ping(cl, cr, id) ==
    LET s == send_to_client(cl, cr, id, Pong)
    IN Res(cl, s.out, s.ok, "done")

\* MessageHandler::send_error
send_error(cl, cr, id, code, message) ==
    LET s == send_to_client(cl, cr, id, Error(code, message))
    IN Res(cl, s.out, s.ok, "done")

\* MessageHandler::handle_message, the `_` arm
handle_unsupported_evicts(cl, cr, id) ==
    LET r == send_error(cl, cr, id, INVALID_MESSAGE, "Unsupported message type")
    IN Res(remove_client(cl, id), r.out, r.ok, "done")

handle_unsupported(cl, cr, id) ==
    send_error(cl, cr, id, INVALID_MESSAGE, "Unsupported message type")

\* MessageHandler::handle_broadcast_message: the fan-out
handle_broadcast_message_forwards(cl, cr, id, content) ==
    LET b == broadcast_message(cl, cr, Broadcast(Forged, content))
    IN [clients |-> cl, out |-> b.out, ok |-> TRUE, pc |-> "bc_ack",
        sent_count |-> b.count]

handle_broadcast_message(cl, cr, id, content) ==
    LET b == broadcast_message(cl, cr, Broadcast(id, content))
    IN [clients |-> cl, out |-> b.out, ok |-> TRUE, pc |-> "bc_ack",
        sent_count |-> b.count]

BroadcastAckText(n) == <<"Broadcast sent to ", n, " clients">>

\* handle_broadcast_message: the acknowledgement to the sender
broadcast_ack(cl, cr, id, sent_count) ==
    LET s == send_to_client(cl, cr, id, Text(BroadcastAckText(sent_count)))
    IN Res(cl, s.out, s.ok, "done")

\* MessageHandler::handle_direct_message: get_client(to).is_some()
direct_lookup(cl, to) ==
    Res(cl, <<>>, TRUE, IF get_client(cl, to) THEN "dm_send" ELSE "dm_err")

\* handle_direct_message: send_to_client(to, &message_frame).await?
direct_send_ignores_error(cl, cr, from, to, content) ==
    LET s == send_to_client(cl, cr, to, DirectMessage(from, to, content))
    IN Res(cl, s.out, TRUE, "dm_ack")

direct_send(cl, cr, from, to, content) ==
    LET s == send_to_client(cl, cr, to, DirectMessage(from, to, content))
    IN Res(cl, s.out, s.ok, IF s.ok THEN "dm_ack" ELSE "done")

\* handle_direct_message: the acknowledgement to the sender
direct_ack(cl, cr, from) ==
    LET s == send_to_client(cl, cr, from, Text("Direct message sent"))
    IN Res(cl, s.out, s.ok, "done")

\* handle_direct_message: the else branch
direct_not_found(cl, cr, from) ==
    send_error(cl, cr, from, CLIENT_NOT_FOUND, "Target client not found")

\* MessageHandler::handle_list_clients: get_all_clients()
list_collect(cl) ==
    [clients |-> cl, out |-> <<>>, ok |-> TRUE, pc |-> "list_send",
     list |-> get_all_clients(cl)]

\* handle_list_clients: the reply
list_send(cl, cr, id, infos) ==
    LET s == send_to_client(cl, cr, id, ClientList(infos))
    IN Res(cl, s.out, s.ok, "done")

\* MessageHandler::handle_close
handle_close_keeps(cl, id) ==
    Res(cl, <<>>, TRUE, "done")

handle_close(cl, id) ==
    Res(remove_client(cl, id), <<>>, TRUE, "done")

\* MessageHandler::handle_subscribe: subscribe_topics(client_id, topics).await?
handle_subscribe(cl, id, topics) ==
    Res(subscribe_topics(cl, id, topics), <<>>, TRUE, "sub_conf")

\* handle_subscribe: the confirmation (its text starts with U+2705)
subscribe_confirm(cl, cr, id, topics) ==
    LET s == send_to_client(cl, cr, id, Text(<<"Subscribed to topics: ", topics>>))
    IN Res(cl, s.out, s.ok, IF s.ok THEN "sub_welcome" ELSE "done")

WelcomeText(topic) == <<"Welcome to topic '", topic, "'! You will receive real-time updates.">>

\* handle_subscribe: one turn of `for topic in &topics`, k counting the turns
subscribe_welcome(cl, cr, id, topics, k) ==
    IF k > Len(topics) THEN Res(cl, <<>>, TRUE, "done")
    ELSE LET s == send_to_client(cl, cr, id, ServerPush(topics[k], WelcomeText(topics[k])))
         IN Res(cl, s.out, s.ok, IF s.ok THEN "sub_welcome" ELSE "done")

\* MessageHandler::handle_unsubscribe: unsubscribe_topics(client_id, topics).await?
handle_unsubscribe(cl, id, topics) ==
    Res(unsubscribe_topics(cl, id, topics), <<>>, TRUE, "unsub_conf")

\* handle_unsubscribe: the confirmation
unsubscribe_confirm(cl, cr, id, topics) ==
    LET s == send_to_client(cl, cr, id, Text(<<"Unsubscribed from topics: ", topics>>))
    IN Res(cl, s.out, s.ok, "done")

\* ClientConnection::increment_message_count (a u64, far from wrapping here)
increment_message_count(client) ==
    [client EXCEPT !.message_count = @ + 1]

\* MessageHandler::handle_message, before the match: get_client returns a
\* clone, the clone is counted up and dropped; the registry is what it was
handle_message(cl, id) ==
    LET client == IF get_client(cl, id) THEN increment_message_count(cl[id]) ELSE None
    IN cl

\* QuicWebSocketServer::handle_stream, up to the match of handle_message:
\* msg is the frame handed to the handlers, ok is false where read_exact
\* returns the error
handle_stream_limit_exclusive(cl, id, s) ==
    LET message_len == s.len
        dropped(ok) == [clients |-> cl, msg |-> NoMsg, ok |-> ok, pc |-> "done"]
    IN IF s.prefix < 4 THEN dropped(FALSE)
       ELSE IF message_len >= MaxMessageLen THEN dropped(TRUE)
       ELSE IF s.body < message_len THEN dropped(FALSE)
       ELSE IF from_bytes(s.payload) = NoMsg THEN dropped(TRUE)
       ELSE [clients |-> handle_message(cl, id), msg |-> from_bytes(s.payload),
             ok |-> TRUE, pc |-> "start"]

handle_stream(cl, id, s) ==
    LET message_len == s.len        \* u32::from_be_bytes(len_bytes) as usize
        dropped(ok) == [clients |-> cl, msg |-> NoMsg, ok |-> ok, pc |-> "done"]
    IN IF s.prefix < 4 THEN dropped(FALSE)
       ELSE IF message_len > MaxMessageLen THEN dropped(TRUE)
       ELSE IF s.body < message_len THEN dropped(FALSE)
       ELSE IF from_bytes(s.payload) = NoMsg THEN dropped(TRUE)
       ELSE [clients |-> handle_message(cl, id), msg |-> from_bytes(s.payload),
             ok |-> TRUE, pc |-> "start"]

\* QuicWebSocketServer::handle_connection, from add_client to the loop
admit_forgets_close(cl, id) ==
    LET r == add_client(cl, id)
    IN IF ~r.ok
       THEN [clients |-> r.clients, ok |-> "refused", close |-> NoReason, pc |-> "returned"]
       ELSE [clients |-> r.clients, ok |-> "admitted", close |-> NoReason, pc |-> "loop"]

admit(cl, id) ==
    LET r == add_client(cl, id)
    IN IF ~r.ok
       THEN [clients |-> r.clients, ok |-> "refused", close |-> ServerFull, pc |-> "returned"]
       ELSE [clients |-> r.clients, ok |-> "admitted", close |-> NoReason, pc |-> "loop"]

\* ------------------------------------------------------------ websocket.rs
WEBSOCKET_MAGIC_STRING == "258EAFA5-E914-47DA-95CA-C5AB0DC85B11"

\* enum WebSocketOpcode with its discriminants (`opcode as u8`)
WebSocketOpcode ==
    [Continuation |-> 0, Text |-> 1, Binary |-> 2, Close |-> 8, Ping |-> 9, Pong |-> 10]

Opcodes == DOMAIN WebSocketOpcode

\* impl From<u8> for WebSocketOpcode: the low four bits, Close for the rest
opcode_from(value) ==
    LET v == value % 16
    IN IF \E o \in Opcodes : WebSocketOpcode[o] = v
       THEN CHOOSE o \in Opcodes : WebSocketOpcode[o] = v
       ELSE "Close"

\* struct WebSocketFrame
WebSocketFrame(fin, opcode, mask, payload) ==
    [fin |-> fin, opcode |-> opcode, mask |-> mask, payload |-> payload]

\* no frame
NoFrame == WebSocketFrame(FALSE, None, FALSE, <<>>)

\* WebSocketFrame::new
WebSocketFrame_new(opcode, payload, fin) == WebSocketFrame(fin, opcode, FALSE, payload)

\* a ^ b on bytes
RECURSIVE xor(_, _)
xor(a, b) ==
    IF a = 0 THEN b
    ELSE IF b = 0 THEN a
    ELSE ((a + b) % 2) + 2 * xor(a \div 2, b \div 2)

\* the low `width` bytes of n, most significant first
be_bytes(n, width) == [i \in 1..width |-> (n \div (256 ^ (width - i))) % 256]

\* (payload_len as u64).to_be_bytes(); a Vec's length is below 2^31 here
u64_to_be_bytes(n) == <<0, 0, 0, 0>> \o be_bytes(n, 4)

\* a 64-bit word as three limbs: bits 63..48, 47..24 and 23..0
Limb == 16777216
TopLimb == 65536

word(n) == [l2 |-> 0, l1 |-> n \div Limb, l0 |-> n % Limb]

\* u64::from_be_bytes
u64_from_be_bytes(b) ==
    [l2 |-> b[1] * 256 + b[2],
     l1 |-> b[3] * 65536 + b[4] * 256 + b[5],
     l0 |-> b[6] * 65536 + b[7] * 256 + b[8]]

\* u16::from_be_bytes(..) as u64
u16_from_be_bytes(b) == word(b[1] * 256 + b[2])

\* n + w on 64-bit words: the wrapped sum, and whether it wrapped
word_add(n, w) ==
    LET s0 == w.l0 + n
        s1 == w.l1 + (s0 \div Limb)
        s2 == w.l2 + (s1 \div Limb)
    IN [sum |-> [l2 |-> s2 % TopLimb, l1 |-> s1 % Limb, l0 |-> s0 % Limb],
        overflow |-> s2 >= TopLimb]

\* n < w, for a length n
word_above(w, n) == w.l2 > 0 \/ w.l1 >= 128 \/ w.l1 * Limb + w.l0 > n

\* the value of a word known to be a length
word_value(w) == w.l1 * Limb + w.l0

\* WebSocketFrame::to_bytes: the mask field is not read
to_bytes_u16_inclusive(frame) ==
    LET first_byte == (IF frame.fin THEN 128 ELSE 0) + WebSocketOpcode[frame.opcode]
        payload_len == Len(frame.payload)
        length == IF payload_len < 126 THEN <<payload_len>>
                  ELSE IF payload_len <= 65536 THEN <<126>> \o be_bytes(payload_len, 2)
                  ELSE <<127>> \o u64_to_be_bytes(payload_len)
    IN <<first_byte>> \o length \o frame.payload

to_bytes(frame) ==
    LET first_byte == (IF frame.fin THEN 128 ELSE 0) + WebSocketOpcode[frame.opcode]
        payload_len == Len(frame.payload)
        length == IF payload_len < 126 THEN <<payload_len>>
                  ELSE IF payload_len < 65536 THEN <<126>> \o be_bytes(payload_len, 2)
                  ELSE <<127>> \o u64_to_be_bytes(payload_len)
    IN <<first_byte>> \o length \o frame.payload

\* what parse returns: Ok(None), Ok(Some((frame, cursor))), or a panic
ParseNone == [kind |-> "None"]
ParseSome(frame, consumed) == [kind |-> "Some", frame |-> frame, consumed |-> consumed]
ParsePanic(at) == [kind |-> "panic", at |-> at]

\* *byte ^= key[i % 4]
unmask(payload, key) ==
    [i \in 1..Len(payload) |-> xor(payload[i], key[((i - 1) % 4) + 1])]

\* parse from the masking key on: websocket.rs:118-153.  cursor is where the
\* length field ends.  cursor + payload_len is a usize addition: a build with
\* overflow checks panics when it wraps, a build without them goes on with
\* the wrapped sum and panics in the slice when that sum lies before cursor.
parse_payload_takes_what_is_there(data, fin, opcode, mask, payload_len, cursor0, overflow_checks) ==
    IF mask /\ Len(data) < cursor0 + 4 THEN ParseNone
    ELSE LET mask_key == IF mask THEN SubSeq(data, cursor0 + 1, cursor0 + 4) ELSE <<>>
             cursor == IF mask THEN cursor0 + 4 ELSE cursor0
             payload == SubSeq(data, cursor + 1, Len(data))
         IN ParseSome(WebSocketFrame(fin, opcode, mask,
                                     IF mask THEN unmask(payload, mask_key) ELSE payload),
                      Len(data))

parse_payload(data, fin, opcode, mask, payload_len, cursor0, overflow_checks) ==
    IF mask /\ Len(data) < cursor0 + 4 THEN ParseNone
    ELSE LET mask_key == IF mask THEN SubSeq(data, cursor0 + 1, cursor0 + 4) ELSE <<>>
             cursor == IF mask THEN cursor0 + 4 ELSE cursor0
             end == word_add(cursor, payload_len)
         IN IF end.overflow /\ overflow_checks
            THEN ParsePanic("attempt to add with overflow")
            ELSE IF word_above(end.sum, Len(data)) THEN ParseNone
            ELSE IF word_value(end.sum) < cursor
            THEN ParsePanic("slice index starts after its end")
            ELSE LET payload == SubSeq(data, cursor + 1, word_value(end.sum))
                 IN ParseSome(WebSocketFrame(fin, opcode, mask,
                                             IF mask THEN unmask(payload, mask_key)
                                             ELSE payload),
                              word_value(end.sum))

\* WebSocketFrame::parse
parse(data, overflow_checks) ==
    IF Len(data) < 2 THEN ParseNone
    ELSE LET first_byte == data[1]
             second_byte == data[2]
             fin == first_byte >= 128
             opcode == opcode_from(first_byte)
             mask == second_byte >= 128
             len7 == second_byte % 128
         IN IF len7 = 126
            THEN IF Len(data) < 4 THEN ParseNone
                 ELSE parse_payload(data, fin, opcode, mask,
                                    u16_from_be_bytes(SubSeq(data, 3, 4)), 4,
                                    overflow_checks)
            ELSE IF len7 = 127
            THEN IF Len(data) < 10 THEN ParseNone
                 ELSE parse_payload(data, fin, opcode, mask,
                                    u64_from_be_bytes(SubSeq(data, 3, 10)), 10,
                                    overflow_checks)
            ELSE parse_payload(data, fin, opcode, mask, word(len7), 2, overflow_checks)

\* a frame to encode, or bytes to parse: who made the bytes (to_bytes, a
\* client, nobody), how long they were before being cut, and what parse
\* returned under which build
NoWire ==
    [pc |-> "idle", frame |-> NoFrame, by |-> None, bytes |-> <<>>, full |-> 0,
     overflow_checks |-> FALSE, result |-> ParseNone]

\* ------------------------------------------------------------ h3_server.rs
MaxH3Conns == 1        \* QUIC connections the HTTP/3 server accepts in one run
MaxH3Streams == 1      \* request streams it accepts in one run

H3Conns == 1..MaxH3Conns
H3Streams == 1..MaxH3Streams

\* str::as_bytes, for the texts used
as_bytes(s) ==
    CASE s = "Welcome to " -> <<87, 101, 108, 99, 111, 109, 101, 32, 116, 111, 32>>
      [] s = "QUIC WebSocket Server" ->
            <<81, 85, 73, 67, 32, 87, 101, 98, 83, 111, 99, 107, 101, 116, 32, 83, 101,
              114, 118, 101, 114>>
      [] s = " (HTTP/3 WebSocket)!" ->
            <<32, 40, 72, 84, 84, 80, 47, 51, 32, 87, 101, 98, 83, 111, 99, 107, 101,
              116, 41, 33>>
      [] s = "hi" -> <<104, 105>>
      [] s = "p" -> <<112>>
      [] s = "x" -> <<120>>
      [] s = "c" -> <<99>>

\* str::to_lowercase, for the header values the clients send
to_lowercase(v) ==
    CASE v = "WebSocket" -> "websocket"
      [] v = "Upgrade" -> "upgrade"
      [] v = "keep-alive, Upgrade" -> "keep-alive, upgrade"
      [] v = "HTTP3" -> "http3"
      [] v = "Custom" -> "custom"
      [] OTHER -> v

\* c.contains("upgrade"), for the header values the clients send
contains_upgrade(c) == c \in {"upgrade", "keep-alive, upgrade"}

\* the four headers of a request that the server looks at (None: not sent)
Headers(upgrade, connection, version, key) ==
    [upgrade |-> upgrade, connection |-> connection, version |-> version, key |-> key]

NoRequest == Headers(None, None, None, None)

\* is_websocket_upgrade_request (websocket.rs)
is_websocket_upgrade_request_any_version(headers) ==
    /\ headers.upgrade # None
    /\ to_lowercase(headers.upgrade) = "websocket"
    /\ headers.connection # None
    /\ contains_upgrade(to_lowercase(headers.connection))
    /\ headers.key # None

is_websocket_upgrade_request(headers) ==
    /\ headers.upgrade # None
    /\ to_lowercase(headers.upgrade) = "websocket"
    /\ headers.connection # None
    /\ contains_upgrade(to_lowercase(headers.connection))
    /\ headers.version = "13"
    /\ headers.key # None

\* generate_websocket_accept (websocket.rs): base64 of the SHA-1 of key + magic,
\* kept as the term it is computed from
generate_websocket_accept(key) ==
    [base64 |-> [sha1 |-> <<key, WEBSOCKET_MAGIC_STRING>>]]

\* what the server writes on a request stream
Response(status, headers) == [kind |-> "response", status |-> status, headers |-> headers]
Data(bytes) == [kind |-> "data", bytes |-> bytes]
Finish == [kind |-> "finish"]

\* handle_websocket_upgrade: the 101 response
upgrade_response(key) ==
    Response(101, [upgrade |-> "websocket", connection |-> "Upgrade",
                   sec_websocket_accept |-> generate_websocket_accept(key)])

\* handle_http_request: the 200 response and the status page
http_response ==
    Response(200, [content_type |-> "text/html; charset=utf-8",
                   server |-> "quic-websocket-h3/1.0"])

html_response == "<!DOCTYPE html> ... QUIC WebSocket Server (HTTP/3) ... </html>"

\* send_websocket_message: WebSocketFrame::new(opcode, payload, true).to_bytes()
send_websocket_message(opcode, payload) ==
    Data(to_bytes(WebSocketFrame_new(opcode, payload, TRUE)))

\* format!("Welcome to {} (HTTP/3 WebSocket)!", server_name).as_bytes()
welcome_msg ==
    as_bytes("Welcome to ") \o as_bytes(server_name) \o as_bytes(" (HTTP/3 WebSocket)!")

\* H3WebSocketConnection (remote_addr plays no part)
H3WebSocketConnection(id, state) == [id |-> id, state |-> state]

\* handle_websocket_messages, the match on frame.opcode: the frames it sends
\* for a parsed frame.  A Text is also handed to broadcast_tx, which has no
\* receiver (new drops the only one), so that send returns an error that is
\* discarded.
reply_to_answers_pong(frame) ==
    CASE frame.opcode = "Text" -> <<send_websocket_message("Text", frame.payload)>>
      [] frame.opcode = "Binary" -> <<send_websocket_message("Binary", frame.payload)>>
      [] frame.opcode = "Close" -> <<send_websocket_message("Close", <<>>)>>
      [] frame.opcode = "Ping" -> <<send_websocket_message("Pong", frame.payload)>>
      [] frame.opcode = "Pong" -> <<send_websocket_message("Ping", frame.payload)>>
      [] OTHER -> <<>>

reply_to(frame) ==
    CASE frame.opcode = "Text" -> <<send_websocket_message("Text", frame.payload)>>
      [] frame.opcode = "Binary" -> <<send_websocket_message("Binary", frame.payload)>>
      [] frame.opcode = "Close" -> <<send_websocket_message("Close", <<>>)>>
      [] frame.opcode = "Ping" -> <<send_websocket_message("Pong", frame.payload)>>
      [] frame.opcode = "Pong" -> <<>>
      [] OTHER -> <<>>

\* ---- the clients of the HTTP/3 server
SampleKey == "dGhlIHNhbXBsZSBub25jZQ=="

Requests ==
    {Headers("websocket", "Upgrade", "13", SampleKey),
     Headers("WebSocket", "keep-alive, Upgrade", "13", SampleKey),
     Headers(None, None, None, None),
     Headers("websocket", "Upgrade", "8", SampleKey),
     Headers("websocket", "Upgrade", "13", None),
     Headers("websocket", "close", "13", SampleKey)}

\* the key of the frame in test_websocket_frame_parsing
MaskKey == <<55, 250, 33, 61>>

\* a frame as a client puts it on the wire (RFC 6455 5.2, the layout of the
\* bytes in test_websocket_frame_parsing): mask bit set, the key after the
\* length, the payload XORed with the key
masked_bytes(frame, key) ==
    LET b == to_bytes(frame)
        h == Len(b) - Len(frame.payload)
    IN <<b[1], b[2] + 128>> \o SubSeq(b, 3, h) \o key \o unmask(frame.payload, key)

\* the bytes a client sends for a frame: masked iff its mask field says so
client_bytes(frame) ==
    IF frame.mask THEN masked_bytes(frame, MaskKey) ELSE to_bytes(frame)

\* what a client sends on an upgraded stream: a sequence of frames
Scripts ==
    << <<WebSocketFrame(TRUE, "Text", TRUE, as_bytes("hi"))>>,
       <<WebSocketFrame(TRUE, "Text", FALSE, as_bytes("hi")),
         WebSocketFrame(TRUE, "Ping", TRUE, as_bytes("p")),
         WebSocketFrame(TRUE, "Pong", TRUE, as_bytes("p"))>>,
       <<WebSocketFrame(TRUE, "Close", TRUE, <<3, 232>>),
         WebSocketFrame(TRUE, "Text", TRUE, as_bytes("x"))>>,
       <<WebSocketFrame(TRUE, "Binary", TRUE, <<0, 255>>),
         WebSocketFrame(FALSE, "Continuation", TRUE, as_bytes("c")),
         WebSocketFrame(TRUE, "Close", FALSE, <<>>)>> >>

RECURSIVE Concat(_)
Concat(ss) == IF ss = <<>> THEN <<>> ELSE Head(ss) \o Concat(Tail(ss))

\* a final masked frame whose first byte carries an opcode that
\* WebSocketOpcode does not name
reserved_bytes(opcode_byte, payload) ==
    <<128 + opcode_byte>>
        \o Tail(masked_bytes(WebSocketFrame(TRUE, "Text", TRUE, payload), MaskKey))

\* a client that sends a frame with the reserved opcode 0x3 and then a Text
ReservedFrames ==
    <<reserved_bytes(3, as_bytes("x")),
      client_bytes(WebSocketFrame(TRUE, "Text", TRUE, as_bytes("hi")))>>

\* the number of the script of that client
ReservedScript == Len(Scripts) + 1

\* the byte stream of each script
AllScriptBytes ==
    [n \in DOMAIN Scripts |->
        Concat([i \in 1..Len(Scripts[n]) |-> client_bytes(Scripts[n][i])])]
        \o <<Concat(ReservedFrames)>>

ScriptBytes(n) == AllScriptBytes[n]

\* the sizes a chunk can have
ChunkSizes == UNION {1..Len(ScriptBytes(n)) : n \in DOMAIN Scripts}

\* ---- the state of the HTTP/3 server
\* a request stream and the task spawned for it: where the task is, the
\* connection and request it serves, the script its client follows and how
\* many bytes of it recv_data has handed over, the rolling buffer, what was
\* written on the stream, the frames parsed so far, whether the peer stopped
\* reading, and whether this task inserted and removed the registry record
FreeStream ==
    [pc |-> "free", c |-> 0, req |-> NoRequest, script |-> 1, delivered |-> 0,
     buffer |-> <<>>, sent |-> <<>>, frames |-> <<>>, stopped |-> FALSE,
     registered |-> FALSE, removed |-> FALSE]

NewH3 ==
    [connections |-> [i \in {} |-> H3WebSocketConnection(i, "Open")],
     conn |-> [c \in H3Conns |-> "init"],
     streams |-> [s \in H3Streams |-> FreeStream]]

\* ------------------------------------------------ client.rs: the broadcast bus
\* ClientManager::new: broadcast::channel(1000)
broadcast_capacity == 1000

MaxTicks == 3          \* heartbeats that fall into one run

\* MessageType::Ping { timestamp } of start_heartbeat_task; the clock counts
\* heartbeats
Heartbeat(timestamp) == [type |-> "Ping", timestamp |-> timestamp]

\* the channel: the frames it retains (oldest first), how many were ever
\* accepted, and for each Receiver alive the number of the frame it gets next.
\* rx is the Receiver that new returns (main.rs gives it to its logger task),
\* sub one obtained later from get_broadcast_sender().subscribe().
Receivers == {"rx", "sub"}

MaxRecvs == 4          \* calls of recv that return in one run

\* clock is the number of heartbeats so far, seen[r] the timestamp of the
\* newest frame Receiver r got (or that was out when it subscribed); ticks
\* and recvs count the steps of one run
NewBus ==
    [ring |-> <<>>, published |-> 0, next |-> [r \in {"rx"} |-> 0],
     seen |-> [r \in Receivers |-> 0], clock |-> 0, ticks |-> 0, recvs |-> 0]

\* the number of the oldest frame the channel still holds
oldest(b) == b.published - Len(b.ring)

\* Sender::send: never waits.  Without a Receiver the value is handed back
\* as an error; with the channel full the oldest frame makes room.
bus_send(b, frame) ==
    IF DOMAIN b.next = {}
    THEN [bus |-> b, ok |-> FALSE]
    ELSE [bus |-> [b EXCEPT !.ring = (IF Len(@) = broadcast_capacity THEN Tail(@) ELSE @)
                                         \o <<frame>>,
                            !.published = @ + 1],
          ok |-> TRUE]

\* Receiver::recv with something to return: the next frame, or Lagged(n) when
\* the next frame is gone, after which the Receiver is at the oldest frame held
bus_recv(b, r) ==
    IF b.next[r] < oldest(b)
    THEN [bus |-> [b EXCEPT !.next[r] = oldest(b)], ok |-> FALSE,
          lagged |-> oldest(b) - b.next[r], frame |-> NoMsg]
    ELSE [bus |-> [b EXCEPT !.next[r] = @ + 1], ok |-> TRUE, lagged |-> 0,
          frame |-> b.ring[b.next[r] - oldest(b) + 1]]

\* Sender::subscribe: the new Receiver gets what is sent from now on
bus_subscribe(b, r) ==
    [b EXCEPT !.next = [q \in DOMAIN b.next \cup {r} |->
                           IF q = r THEN b.published ELSE b.next[q]]]

\* a Receiver is dropped
bus_drop(b, r) == [b EXCEPT !.next = [q \in DOMAIN b.next \ {r} |-> b.next[q]]]

\* ClientManager::broadcast_message, client.rs:193-196: the frame is handed to
\* the channel whatever the loop over the sessions did; an error is logged
broadcast_publish_if_sent(b, frame, sent_count) ==
    IF sent_count > 0 THEN bus_send(b, frame) ELSE [bus |-> b, ok |-> TRUE]

broadcast_publish(b, frame, sent_count) == bus_send(b, frame)

\* ------------------------------------------- client.rs: the registry's lock
\* the tasks that call the ClientManager: a handle_stream task, a
\* handle_connection task, a push engine and the cleanup task
Procs == {"stream", "conn", "push", "reaper"}

\* the calls each of them makes
Calls(p) ==
    CASE p = "stream" -> {"get_client", "send_to_client", "set_client_name",
                          "update_client_state", "broadcast_message", "remove_client"}
      [] p = "conn" -> {"add_client", "remove_client"}
      [] p = "push" -> {"broadcast_message"}
      [] p = "reaper" -> {"cleanup_disconnected_clients"}

\* what a ClientManager method does with the lock, in order: "read" and
\* "write" are clients.read().await and clients.write().await, "send" is a
\* send_message(..).await made with the guard alive, "unlock" the end of the
\* guard's scope.  broadcast_message sends once to each Connected client: two.
lock_plan_broadcast_relocks(op) ==
    CASE op = "broadcast_message" -> <<"read", "send", "read", "unlock", "send", "unlock">>
      [] op \in {"get_client"} -> <<"read", "unlock">>
      [] op = "send_to_client" -> <<"read", "send", "unlock">>
      [] OTHER -> <<"write", "unlock">>

lock_plan(op) ==
    CASE op \in {"add_client", "remove_client", "update_client_state", "set_client_name",
                 "cleanup_disconnected_clients"} -> <<"write", "unlock">>
      [] op \in {"get_client"} -> <<"read", "unlock">>
      [] op = "send_to_client" -> <<"read", "send", "unlock">>
      [] op = "broadcast_message" -> <<"read", "send", "send", "unlock">>

\* a task between two calls
Idle == [op |-> None, at |-> 0, phase |-> "ready", guards |-> <<>>]

\* the lock: how many read guards each task holds, who holds the write guard,
\* and the tasks waiting for a guard, first come first served
NewLock ==
    [readers |-> [p \in Procs |-> 0], writer |-> None, queue |-> <<>>,
     proc |-> [p \in Procs |-> Idle]]

\* RwLock: a read guard is given while nobody writes, the write guard while
\* nobody holds any guard; the one who waits longest is served first
can_grant(l, p, mode) ==
    /\ l.queue # <<>>
    /\ Head(l.queue) = p
    /\ l.writer = None
    /\ mode = "write" => \A q \in Procs : l.readers[q] = 0

lock_grant(l, p, mode) ==
    [l EXCEPT !.queue = Tail(@),
              !.readers[p] = IF mode = "read" THEN @ + 1 ELSE @,
              !.writer = IF mode = "write" THEN p ELSE @]

lock_release(l, p, mode) ==
    [l EXCEPT !.readers[p] = IF mode = "read" THEN @ - 1 ELSE @,
              !.writer = IF mode = "write" THEN None ELSE @]

\* the plan item task p is at
Item(l, p) == lock_plan(l.proc[p].op)[l.proc[p].at]

\* task p has done the item it was at; after the last one the call returns
Done(l, p) ==
    IF l.proc[p].at = Len(lock_plan(l.proc[p].op))
    THEN [l EXCEPT !.proc[p] = Idle]
    ELSE [l EXCEPT !.proc[p].at = @ + 1, !.proc[p].phase = "ready"]

\* ------------------------------------------------- main.rs: mode and ALPN
MaxNetConns == 2       \* connections that arrive in one run

NetConns == 1..MaxNetConns

\* --mode as given on the command line
Modes == {"http3", "custom", "Custom", "native"}

\* create_server_config: tls_config.alpn_protocols
create_server_config == [alpn_protocols |-> <<"h3">>]

\* main: match args.mode.to_lowercase().as_str()
server_mode(mode) ==
    CASE to_lowercase(mode) = "http3" -> "h3_server"
      [] to_lowercase(mode) = "custom" -> "server"
      [] OTHER -> "invalid"

\* the ALPN lists of the clients: examples/client.rs, the HTTP/3 clients,
\* one that offers both and one that offers neither
ClientOffers == {<<"quic-websocket">>, <<"h3">>, <<"quic-websocket", "h3">>, <<"hq-29">>}

\* TLS: the first protocol of the server's list that the client offers too;
\* None ends the handshake (no_application_protocol)
RECURSIVE negotiate(_, _)
negotiate(protocols, offer) ==
    IF protocols = <<>> THEN None
    ELSE IF \E k \in 1..Len(offer) : offer[k] = Head(protocols) THEN Head(protocols)
         ELSE negotiate(Tail(protocols), offer)

NoNetConn == [pc |-> "init", offer |-> <<>>, alpn |-> None, by |-> None]

NoNet ==
    [mode |-> None, alpn_protocols |-> <<>>, serving |-> None,
     conns |-> [c \in NetConns |-> NoNetConn]]

\* ------------------------------------------------------------------ state
FreeTask == [pc |-> "free", c |-> 0, stream |-> NoStream, msg |-> NoMsg, out |-> <<>>,
             sent_count |-> 0, list |-> {}, k |-> 1, ok |-> TRUE]

\* the record of a step: which one, by which task or for which connection,
\* the task and the registry as they were before it, what it returned and,
\* for a step of a push engine, the topic and the writes it attempted
Step(act, t, c) ==
    [act |-> act, t |-> t, c |-> c,
     task |-> IF t \in Tasks THEN tasks[t] ELSE FreeTask,
     clients |-> clients, admitted |-> admitted, ret |-> 0, out |-> <<>>,
     topic |-> None]

NativeInit ==
    /\ clients = [i \in {} |-> NewClient(i)]
    /\ conn_pc = [c \in Conns |-> "init"]
    /\ admitted = [c \in Conns |-> "pending"]
    /\ close_reason = [c \in Conns |-> NoReason]
    /\ tasks = [t \in Tasks |-> FreeTask]

Init ==
    /\ NativeInit
    /\ h3 = NewH3
    /\ wire = NoWire
    /\ bus = NewBus
    /\ rw = NewLock
    /\ net = NoNet
    /\ last = [act |-> "new", t |-> 0, c |-> 0, task |-> FreeTask,
               clients |-> [i \in {} |-> NewClient(i)],
               admitted |-> [c \in Conns |-> "pending"], ret |-> 0, out |-> <<>>,
               topic |-> None]

\* ---------------------------------------------------------------- actions
\* endpoint.accept() yields the next connection; handle_connection admits it
Connect(c) ==
    /\ conn_pc[c] = "init"
    /\ \A d \in Conns : d < c => conn_pc[d] # "init"
    /\ LET r == admit(clients, c)
       IN /\ clients' = r.clients
          /\ admitted' = [admitted EXCEPT ![c] = r.ok]
          /\ close_reason' = [close_reason EXCEPT ![c] = r.close]
          /\ conn_pc' = [conn_pc EXCEPT ![c] = r.pc]
    /\ last' = Step("connect", 0, c)
    /\ UNCHANGED <<tasks, others>>

\* the peer closes the connection, or the transport gives up on it
ConnectionLost(c, why) ==
    /\ conn_pc[c] \in {"loop", "done"}
    /\ ~IsClosed(close_reason, c)
    /\ close_reason' = [close_reason EXCEPT ![c] = why]
    /\ last' = Step("lost", 0, c)
    /\ UNCHANGED <<clients, conn_pc, admitted, tasks, others>>

\* handle_connection: accept_uni fails or the 1 s probe sees close_reason
DispatcherExit(c) ==
    /\ conn_pc[c] = "loop"
    /\ IsClosed(close_reason, c)
    /\ clients' = remove_client(clients, c)
    /\ conn_pc' = [conn_pc EXCEPT ![c] = "done"]
    /\ last' = Step("exit", 0, c)
    /\ UNCHANGED <<admitted, close_reason, tasks, others>>

\* start_cleanup_task: one tick of the 30 s reaper; ret is `cleaned`
Reaper ==
    /\ LET r == cleanup_disconnected_clients(clients, close_reason)
       IN /\ clients' = r.clients
          /\ last' = [Step("reap", 0, 0) EXCEPT !.ret = r.removed_count]
    /\ UNCHANGED <<conn_pc, admitted, close_reason, tasks, others>>

FirstFree(t) ==
    /\ tasks[t].pc = "free"
    /\ \A u \in Tasks : u < t => tasks[u].pc # "free"

\* handle_connection: accept_uni yields the stream s, handle_stream is spawned
AcceptStream(c, s, t) ==
    /\ conn_pc[c] = "loop"
    /\ ~IsClosed(close_reason, c)
    /\ FirstFree(t)
    /\ tasks' = [tasks EXCEPT ![t] = [FreeTask EXCEPT !.pc = "recv", !.c = c, !.stream = s]]
    /\ last' = Step("accept", t, c)
    /\ UNCHANGED <<clients, conn_pc, admitted, close_reason, others>>

\* handle_stream reads the stream and, if it holds a frame, enters handle_message
HandleStream(t) ==
    /\ tasks[t].pc = "recv"
    /\ LET r == handle_stream(clients, tasks[t].c, tasks[t].stream)
       IN /\ clients' = r.clients
          /\ tasks' = [tasks EXCEPT ![t].pc = r.pc, ![t].msg = r.msg, ![t].ok = r.ok,
                                    ![t].stream = NoStream]
    /\ last' = Step("read", t, tasks[t].c)
    /\ UNCHANGED <<conn_pc, admitted, close_reason, others>>

\* a step of the handler run by task t, with result r
Advance(t, r) ==
    /\ clients' = r.clients
    /\ tasks' = [tasks EXCEPT ![t].pc = r.pc, ![t].out = r.out, ![t].ok = r.ok]
    /\ last' = Step("handle", t, tasks[t].c)
    /\ UNCHANGED <<conn_pc, admitted, close_reason, others>>

At(t, pc, type) == tasks[t].pc = pc /\ tasks[t].msg.type = type

HandleHandshake(t) ==
    /\ At(t, "start", "Handshake")
    /\ Advance(t, handle_handshake(clients, close_reason, tasks[t].c,
                                   tasks[t].msg.client_name, tasks[t].msg.protocol_version))

HandshakeSetName(t) ==
    /\ At(t, "set_name", "Handshake")
    /\ Advance(t, handshake_set_name(clients, tasks[t].c, tasks[t].msg.client_name))

HandshakeSetState(t) ==
    /\ At(t, "set_state", "Handshake")
    /\ Advance(t, handshake_set_state(clients, tasks[t].c))

HandleText(t) ==
    /\ At(t, "start", "Text")
    /\ Advance(t, handle_text_message(clients, close_reason, tasks[t].c, tasks[t].msg.content))

HandleBinary(t) ==
    /\ At(t, "start", "Binary")
    /\ Advance(t, handle_binary_message(clients, close_reason, tasks[t].c, tasks[t].msg.data))

HandlePing(t) ==
    /\ At(t, "start", "Ping")
    /\ Advance(t, handle_ping(clients, close_reason, tasks[t].c))

HandleUnsupported(t) ==
    /\ tasks[t].pc = "start"
    /\ tasks[t].msg.type \in {"Pong", "HandshakeResponse", "ClientList", "Error", "ServerPush"}
    /\ Advance(t, handle_unsupported(clients, close_reason, tasks[t].c))

HandleBroadcast(t) ==
    /\ At(t, "start", "Broadcast")
    /\ LET r == handle_broadcast_message(clients, close_reason, tasks[t].c, tasks[t].msg.content)
       IN /\ clients' = r.clients
          /\ tasks' = [tasks EXCEPT ![t].pc = r.pc, ![t].out = r.out, ![t].ok = r.ok,
                                    ![t].sent_count = r.sent_count]
    /\ last' = Step("handle", t, tasks[t].c)
    /\ UNCHANGED <<conn_pc, admitted, close_reason, others>>

BroadcastAck(t) ==
    /\ At(t, "bc_ack", "Broadcast")
    /\ Advance(t, broadcast_ack(clients, close_reason, tasks[t].c, tasks[t].sent_count))

DirectLookup(t) ==
    /\ At(t, "start", "DirectMessage")
    /\ Advance(t, direct_lookup(clients, tasks[t].msg.to))

DirectSend(t) ==
    /\ At(t, "dm_send", "DirectMessage")
    /\ Advance(t, direct_send(clients, close_reason, tasks[t].c, tasks[t].msg.to,
                              tasks[t].msg.content))

DirectAck(t) ==
    /\ At(t, "dm_ack", "DirectMessage")
    /\ Advance(t, direct_ack(clients, close_reason, tasks[t].c))

DirectNotFound(t) ==
    /\ At(t, "dm_err", "DirectMessage")
    /\ Advance(t, direct_not_found(clients, close_reason, tasks[t].c))

ListCollect(t) ==
    /\ At(t, "start", "ListClients")
    /\ LET r == list_collect(clients)
       IN /\ clients' = r.clients
          /\ tasks' = [tasks EXCEPT ![t].pc = r.pc, ![t].out = r.out, ![t].ok = r.ok,
                                    ![t].list = r.list]
    /\ last' = Step("handle", t, tasks[t].c)
    /\ UNCHANGED <<conn_pc, admitted, close_reason, others>>

ListSend(t) ==
    /\ At(t, "list_send", "ListClients")
    /\ Advance(t, list_send(clients, close_reason, tasks[t].c, tasks[t].list))

HandleClose(t) ==
    /\ At(t, "start", "Close")
    /\ Advance(t, handle_close(clients, tasks[t].c))

HandleSubscribe(t) ==
    /\ At(t, "start", "Subscribe")
    /\ Advance(t, handle_subscribe(clients, tasks[t].c, tasks[t].msg.topics))

SubscribeConfirm(t) ==
    /\ At(t, "sub_conf", "Subscribe")
    /\ Advance(t, subscribe_confirm(clients, close_reason, tasks[t].c, tasks[t].msg.topics))

SubscribeWelcome(t) ==
    /\ At(t, "sub_welcome", "Subscribe")
    /\ LET r == subscribe_welcome(clients, close_reason, tasks[t].c,
                                  tasks[t].msg.topics, tasks[t].k)
       IN /\ clients' = r.clients
          /\ tasks' = [tasks EXCEPT ![t].pc = r.pc, ![t].out = r.out, ![t].ok = r.ok,
                                    ![t].k = IF r.pc = "done" THEN 1 ELSE @ + 1]
    /\ last' = Step("handle", t, tasks[t].c)
    /\ UNCHANGED <<conn_pc, admitted, close_reason, others>>

HandleUnsubscribe(t) ==
    /\ At(t, "start", "Unsubscribe")
    /\ Advance(t, handle_unsubscribe(clients, tasks[t].c, tasks[t].msg.topics))

UnsubscribeConfirm(t) ==
    /\ At(t, "unsub_conf", "Unsubscribe")
    /\ Advance(t, unsubscribe_confirm(clients, close_reason, tasks[t].c, tasks[t].msg.topics))

\* start_notification_task / start_realtime_data_task: one tick of an engine
\* that pushes on the topic
Push(topic) ==
    /\ LET r == push_to_subscribers(clients, close_reason, topic, ServerPush(topic, "update"))
       IN last' = [Step("push", 0, 0) EXCEPT !.ret = r.count, !.out = r.out,
                                             !.topic = topic]
    /\ UNCHANGED <<clients, conn_pc, admitted, close_reason, tasks, others>>

\* handle_stream returns and the task is dropped
TaskExit(t) ==
    /\ tasks[t].pc = "done"
    /\ tasks' = [tasks EXCEPT ![t] = FreeTask]
    /\ last' = Step("drop", t, tasks[t].c)
    /\ UNCHANGED <<clients, conn_pc, admitted, close_reason, others>>

Next ==
    \/ \E c \in Conns : Connect(c)
    \/ \E c \in Conns, why \in PeerReasons : ConnectionLost(c, why)
    \/ \E c \in Conns : DispatcherExit(c)
    \/ Reaper
    \/ \E c \in Conns, s \in Streams, t \in Tasks : AcceptStream(c, s, t)
    \/ \E t \in Tasks : HandleStream(t)
    \/ \E t \in Tasks : HandleHandshake(t)
    \/ \E t \in Tasks : HandshakeSetName(t)
    \/ \E t \in Tasks : HandshakeSetState(t)
    \/ \E t \in Tasks : HandleText(t)
    \/ \E t \in Tasks : HandleBinary(t)
    \/ \E t \in Tasks : HandlePing(t)
    \/ \E t \in Tasks : HandleUnsupported(t)
    \/ \E t \in Tasks : HandleBroadcast(t)
    \/ \E t \in Tasks : BroadcastAck(t)
    \/ \E t \in Tasks : DirectLookup(t)
    \/ \E t \in Tasks : DirectSend(t)
    \/ \E t \in Tasks : DirectAck(t)
    \/ \E t \in Tasks : DirectNotFound(t)
    \/ \E t \in Tasks : ListCollect(t)
    \/ \E t \in Tasks : ListSend(t)
    \/ \E t \in Tasks : HandleClose(t)
    \/ \E t \in Tasks : TaskExit(t)

Spec == Init /\ [][Next]_vars

\* handle_connection is a task of its own: once its connection is closed,
\* accept_uni fails at once (and the 1 s probe fires), so the runtime lets it
\* leave the loop.  Nothing is assumed of the peers, the handlers or the reaper.
\*
\* The clients of this specification send a Handshake, a Text or a Close:
\* the messages whose handlers read or change the registry entry that the
\* dispatcher removes.
EvictStreams ==
    {Framed(Handshake(None, "1.0")), Framed(Text("hi")), Framed(Close(1000, "bye"))}

EvictNext ==
    \/ \E c \in Conns : Connect(c)
    \/ \E c \in Conns, why \in PeerReasons : ConnectionLost(c, why)
    \/ \E c \in Conns : DispatcherExit(c)
    \/ Reaper
    \/ \E c \in Conns, s \in EvictStreams, t \in Tasks : AcceptStream(c, s, t)
    \/ \E t \in Tasks : HandleStream(t)
    \/ \E t \in Tasks : HandleHandshake(t)
    \/ \E t \in Tasks : HandshakeSetState(t)
    \/ \E t \in Tasks : HandleText(t)
    \/ \E t \in Tasks : HandleClose(t)
    \/ \E t \in Tasks : TaskExit(t)

\* The specification of the topics: the clients send Handshake, Subscribe,
\* Unsubscribe, Broadcast and Close, and the push engines tick.
Topics == {"stocks", "news"}
TopicLists == {<<"stocks">>, <<"stocks", "news">>}

TopicStreams ==
    {Framed(Handshake(None, "1.0")), Framed(Close(1000, "bye")),
     Framed(Broadcast(Forged, "hello all"))}
    \cup {Framed(Subscribe(T)) : T \in TopicLists}
    \cup {Framed(Unsubscribe(T)) : T \in TopicLists}

TopicNext ==
    \/ \E c \in Conns : Connect(c)
    \/ \E c \in Conns, why \in PeerReasons : ConnectionLost(c, why)
    \/ \E c \in Conns : DispatcherExit(c)
    \/ Reaper
    \/ \E topic \in Topics : Push(topic)
    \/ \E c \in Conns, s \in TopicStreams, t \in Tasks : AcceptStream(c, s, t)
    \/ \E t \in Tasks : HandleStream(t)
    \/ \E t \in Tasks : HandleHandshake(t)
    \/ \E t \in Tasks : HandshakeSetState(t)
    \/ \E t \in Tasks : HandleSubscribe(t)
    \/ \E t \in Tasks : SubscribeConfirm(t)
    \/ \E t \in Tasks : SubscribeWelcome(t)
    \/ \E t \in Tasks : HandleUnsubscribe(t)
    \/ \E t \in Tasks : UnsubscribeConfirm(t)
    \/ \E t \in Tasks : HandleBroadcast(t)
    \/ \E t \in Tasks : BroadcastAck(t)
    \/ \E t \in Tasks : HandleClose(t)
    \/ \E t \in Tasks : TaskExit(t)

TopicSpec == Init /\ [][TopicNext]_vars

FairSpec ==
    Init /\ [][EvictNext]_vars /\ \A c \in Conns : WF_vars(DispatcherExit(c))

\* ------------------------------------------------- the HTTP/3 server's steps
\* the record of a step of the HTTP/3 server: which one, of which stream or
\* connection, the stream and the registry as they were before it, the frame
\* it parsed and the writes it attempted
H3Step(act, s, c) ==
    [act |-> act, s |-> s, c |-> c,
     stream |-> IF s \in DOMAIN h3.streams THEN h3.streams[s] ELSE FreeStream,
     connections |-> h3.connections, frame |-> NoFrame, out |-> <<>>, ok |-> TRUE]

\* a write on the stream of s succeeds while its connection is open and the
\* peer has not stopped reading
Writable(s) == h3.conn[h3.streams[s].c] = "open" /\ ~h3.streams[s].stopped

H3FirstFree(s) ==
    /\ h3.streams[s].pc = "free"
    /\ \A u \in DOMAIN h3.streams : u < s => h3.streams[u].pc # "free"

\* run: endpoint.accept() yields a connection; handle_connection sets up HTTP/3
H3Connect(c) ==
    /\ h3.conn[c] = "init"
    /\ \A d \in DOMAIN h3.conn : d < c => h3.conn[d] # "init"
    /\ h3' = [h3 EXCEPT !.conn[c] = "open"]
    /\ last' = H3Step("h3 connect", 0, c)
    /\ UNCHANGED <<native, wire, bus, rw, net>>

\* the peer closes the connection, or the transport gives up on it
H3ConnectionLost(c) ==
    /\ h3.conn[c] = "open"
    /\ h3' = [h3 EXCEPT !.conn[c] = "lost"]
    /\ last' = H3Step("h3 lost", 0, c)
    /\ UNCHANGED <<native, wire, bus, rw, net>>

\* handle_connection: h3_conn.accept() yields None or an error, the loop is
\* left and the record of conn_id is removed
H3ConnectionExit(c) ==
    /\ h3.conn[c] = "lost"
    /\ h3' = [h3 EXCEPT !.conn[c] = "closed",
                        !.connections = Without(h3.connections, c)]
    /\ last' = H3Step("h3 exit", 0, c)
    /\ UNCHANGED <<native, wire, bus, rw, net>>

\* handle_connection: h3_conn.accept() yields a request, handle_request is
\* spawned.  script is what the client will send if the stream is upgraded.
H3Accept(c, s, req, script) ==
    /\ h3.conn[c] = "open"
    /\ H3FirstFree(s)
    /\ script = 1 \/ is_websocket_upgrade_request(req)
    /\ h3' = [h3 EXCEPT !.streams[s] =
                 [FreeStream EXCEPT !.pc = "request", !.c = c, !.req = req,
                                    !.script = script]]
    /\ last' = H3Step("h3 accept", s, c)
    /\ UNCHANGED <<native, wire, bus, rw, net>>

\* the peer stops reading the stream (STOP_SENDING)
H3StopSending(s) ==
    /\ h3.streams[s].pc \in {"request", "register", "welcome", "loop", "parse"}
    /\ ~h3.streams[s].stopped
    /\ h3' = [h3 EXCEPT !.streams[s].stopped = TRUE]
    /\ last' = H3Step("h3 stop", s, h3.streams[s].c)
    /\ UNCHANGED <<native, wire, bus, rw, net>>

\* a step of the task of stream s that attempts the writes `out`, which go
\* through iff ok, and moves the task to pc
H3Advance(s, act, out, ok, pc) ==
    /\ h3' = [h3 EXCEPT !.streams[s].pc = pc,
                        !.streams[s].sent = IF ok THEN @ \o out ELSE @]
    /\ last' = [H3Step(act, s, h3.streams[s].c) EXCEPT !.out = out, !.ok = ok]
    /\ UNCHANGED <<native, wire, bus, rw, net>>

\* handle_request, no upgrade: handle_http_request answers 200 with the status
\* page and finishes the stream; a failed write ends the task with its error
handle_http_request(s) ==
    /\ h3.streams[s].pc = "request"
    /\ ~is_websocket_upgrade_request(h3.streams[s].req)
    /\ H3Advance(s, "h3 http", <<http_response, Data(html_response), Finish>>,
                 Writable(s), IF Writable(s) THEN "done" ELSE "failed")

\* handle_request, upgrade: handle_websocket_upgrade up to send_response(101)
send_upgrade_response(s) ==
    /\ h3.streams[s].pc = "request"
    /\ is_websocket_upgrade_request(h3.streams[s].req)
    /\ H3Advance(s, "h3 upgrade", <<upgrade_response(h3.streams[s].req.key)>>,
                 Writable(s), IF Writable(s) THEN "register" ELSE "failed")

\* handle_websocket_upgrade: connections.write().await.insert(conn_id, ws_conn)
register_connection(s) ==
    /\ h3.streams[s].pc = "register"
    /\ h3' = [h3 EXCEPT !.streams[s].pc = "welcome",
                        !.streams[s].registered = TRUE,
                        !.connections =
                            With(h3.connections, h3.streams[s].c,
                                 H3WebSocketConnection(h3.streams[s].c, "Open"))]
    /\ last' = H3Step("h3 register", s, h3.streams[s].c)
    /\ UNCHANGED <<native, wire, bus, rw, net>>

\* handle_websocket_upgrade: the welcome frame; on an error the function
\* returns at once
send_welcome(s) ==
    /\ h3.streams[s].pc = "welcome"
    /\ H3Advance(s, "h3 welcome", <<send_websocket_message("Text", welcome_msg)>>,
                 Writable(s), IF Writable(s) THEN "loop" ELSE "failed")

\* handle_websocket_messages: recv_data yields the next k bytes of the client
\* as one chunk, which is appended to the buffer
recv_data(s, k) ==
    /\ h3.streams[s].pc = "loop"
    /\ h3.conn[h3.streams[s].c] = "open"
    /\ LET st == h3.streams[s]
           bytes == ScriptBytes(st.script)
       IN /\ st.delivered + k <= Len(bytes)
          /\ h3' = [h3 EXCEPT !.streams[s].pc = "parse",
                              !.streams[s].delivered = @ + k,
                              !.streams[s].buffer =
                                  @ \o SubSeq(bytes, st.delivered + 1, st.delivered + k)]
    /\ last' = H3Step("h3 recv", s, h3.streams[s].c)
    /\ UNCHANGED <<native, wire, bus, rw, net>>

\* handle_websocket_messages: recv_data yields None (the client has sent all
\* and finished the stream) or an error (the connection is gone); the outer
\* loop is left
recv_end(s) ==
    /\ h3.streams[s].pc = "loop"
    /\ \/ /\ h3.conn[h3.streams[s].c] = "open"
          /\ h3.streams[s].delivered = Len(ScriptBytes(h3.streams[s].script))
       \/ h3.conn[h3.streams[s].c] # "open"
    /\ h3' = [h3 EXCEPT !.streams[s].pc = "cleanup"]
    /\ last' = H3Step("h3 end", s, h3.streams[s].c)
    /\ UNCHANGED <<native, wire, bus, rw, net>>

\* handle_websocket_messages: one round of `while let Some(..) = parse(&buffer)?`.
\* No frame: back to recv_data.  A frame: it is drained from the buffer and
\* answered; a failed write returns from the function with the error; the
\* `break` of the Close arm leaves the while loop, which is the inner one, so
\* the task is back at recv_data.
handle_frame(s) ==
    /\ h3.streams[s].pc = "parse"
    /\ \E overflow_checks \in BOOLEAN :
        LET st == h3.streams[s]
            r == parse(st.buffer, overflow_checks)
            out == IF r.kind = "Some" THEN reply_to(r.frame) ELSE <<>>
            ok == out = <<>> \/ Writable(s)
            pc == CASE r.kind = "None" -> "loop"
                    [] r.kind = "panic" -> "panicked"
                    [] ~ok -> "failed"
                    [] r.frame.opcode = "Close" -> "loop"
                    [] OTHER -> "parse"
        IN /\ h3' = [h3 EXCEPT
                       !.streams[s].pc = pc,
                       !.streams[s].buffer =
                           IF r.kind = "Some"
                           THEN SubSeq(st.buffer, r.consumed + 1, Len(st.buffer))
                           ELSE @,
                       !.streams[s].frames =
                           IF r.kind = "Some" THEN Append(@, r.frame) ELSE @,
                       !.streams[s].sent = IF ok THEN @ \o out ELSE @]
           /\ last' = [H3Step("h3 frame", s, st.c) EXCEPT
                          !.frame = IF r.kind = "Some" THEN r.frame ELSE NoFrame,
                          !.out = out, !.ok = ok]
    /\ UNCHANGED <<native, wire, bus, rw, net>>

\* handle_websocket_messages after the loop: connections.write().await.remove
remove_connection(s) ==
    /\ h3.streams[s].pc = "cleanup"
    /\ h3' = [h3 EXCEPT !.streams[s].pc = "done",
                        !.streams[s].removed = TRUE,
                        !.connections = Without(h3.connections, h3.streams[s].c)]
    /\ last' = H3Step("h3 remove", s, h3.streams[s].c)
    /\ UNCHANGED <<native, wire, bus, rw, net>>

H3Init ==
    /\ NativeInit
    /\ h3 = NewH3
    /\ wire = NoWire
    /\ bus = NewBus
    /\ rw = NewLock
    /\ net = NoNet
    /\ last = [act |-> "new", s |-> 0, c |-> 0, stream |-> FreeStream,
               connections |-> NewH3.connections, frame |-> NoFrame, out |-> <<>>,
               ok |-> TRUE]

H3Next ==
    \/ \E c \in H3Conns : H3Connect(c)
    \/ \E c \in H3Conns : H3ConnectionLost(c)
    \/ \E c \in H3Conns : H3ConnectionExit(c)
    \/ \E c \in H3Conns, s \in H3Streams, req \in Requests, script \in DOMAIN Scripts :
          H3Accept(c, s, req, script)
    \/ \E s \in H3Streams : H3StopSending(s)
    \/ \E s \in H3Streams : handle_http_request(s)
    \/ \E s \in H3Streams : send_upgrade_response(s)
    \/ \E s \in H3Streams : register_connection(s)
    \/ \E s \in H3Streams : send_welcome(s)
    \/ \E s \in H3Streams, k \in ChunkSizes : recv_data(s, k)
    \/ \E s \in H3Streams : recv_end(s)
    \/ \E s \in H3Streams : handle_frame(s)
    \/ \E s \in H3Streams : remove_connection(s)

H3Spec == H3Init /\ [][H3Next]_vars

\* ---- the HTTP/3 server with more connections than max_clients, each able to
\* carry several upgraded streams; every client sends the reserved frame and
\* then a Text, which arrive in one chunk, and no connection is lost
ManyConns == 1..(MaxClients + 1)
ManyStreams == 1..(MaxClients + 1)

ManyChunks == {Len(ScriptBytes(ReservedScript))}

ManyInit ==
    /\ NativeInit
    /\ h3 = [connections |-> NewH3.connections,
             conn |-> [c \in ManyConns |-> "init"],
             streams |-> [s \in ManyStreams |-> FreeStream]]
    /\ wire = NoWire
    /\ bus = NewBus
    /\ rw = NewLock
    /\ net = NoNet
    /\ last = [act |-> "new", s |-> 0, c |-> 0, stream |-> FreeStream,
               connections |-> NewH3.connections, frame |-> NoFrame, out |-> <<>>,
               ok |-> TRUE]

ManyNext ==
    \/ \E c \in ManyConns : H3Connect(c)
    \/ \E c \in ManyConns, s \in ManyStreams :
          H3Accept(c, s, Headers("websocket", "Upgrade", "13", SampleKey), ReservedScript)
    \/ \E s \in ManyStreams : send_upgrade_response(s)
    \/ \E s \in ManyStreams : register_connection(s)
    \/ \E s \in ManyStreams : send_welcome(s)
    \/ \E s \in ManyStreams, k \in ManyChunks : recv_data(s, k)
    \/ \E s \in ManyStreams : recv_end(s)
    \/ \E s \in ManyStreams : handle_frame(s)
    \/ \E s \in ManyStreams : remove_connection(s)

ManySpec == ManyInit /\ [][ManyNext]_vars

\* --------------------------------------------------- the codec on its own
MaxPrefix == 15        \* cuts of an encoding that are tried from its start

PayloadLens == {0, 1, 5, 125, 126, 65535, 65536}

Payload(n) == [i \in 1..n |-> (i * 7 + 3) % 256]

\* every fin, opcode and mask with the lengths of the 7-bit and 16-bit forms
\* and their boundaries; the lengths around 65536 in final Binary frames
ShortLens == {n \in PayloadLens : n < 65535}

WireFrames ==
    {WebSocketFrame(fin, opcode, mask, Payload(n)) :
        fin \in BOOLEAN, opcode \in Opcodes, mask \in BOOLEAN, n \in ShortLens}
    \cup {WebSocketFrame(TRUE, opcode, mask, Payload(n)) :
             opcode \in {"Binary"}, mask \in BOOLEAN,
             n \in PayloadLens \ ShortLens}

MaskKeys == {MaskKey, <<0, 0, 0, 0>>, <<255, 1, 128, 7>>}

\* buffers no encoder makes: a header that announces a 64-bit length, with
\* few or no bytes after it
RawLengths ==
    {<<255, 255, 255, 255, 255, 255, 255, 255>>,
     <<255, 255, 255, 255, 255, 255, 255, 246>>,
     <<255, 255, 255, 255, 255, 255, 255, 241>>,
     <<128, 0, 0, 0, 0, 0, 0, 0>>,
     <<0, 0, 0, 1, 0, 0, 0, 0>>,
     <<0, 0, 0, 0, 0, 0, 0, 3>>}

RawBuffers ==
    {<<first, second>> \o len \o tail :
        first \in {130, 3}, second \in {127, 255}, len \in RawLengths,
        tail \in {<<>>, <<1, 2, 3, 4>>, <<1, 2, 3, 4, 5, 6, 7>>}}

WireInit ==
    /\ NativeInit
    /\ h3 = NewH3
    /\ bus = NewBus
    /\ rw = NewLock
    /\ net = NoNet
    /\ wire \in {[NoWire EXCEPT !.pc = "frame", !.frame = f] : f \in WireFrames}
            \cup {[NoWire EXCEPT !.pc = "bytes", !.by = "raw", !.bytes = b,
                                 !.full = Len(b)] : b \in RawBuffers}
    /\ last = [act |-> "new"]

\* frame.to_bytes()
Encode ==
    /\ wire.pc = "frame"
    /\ LET b == to_bytes(wire.frame)
       IN wire' = [wire EXCEPT !.pc = "bytes", !.by = "to_bytes", !.bytes = b,
                               !.full = Len(b)]
    /\ last' = [act |-> "encode"]
    /\ UNCHANGED <<native, h3, bus, rw, net>>

\* a client encodes the frame: masked with a key if its mask field is set,
\* in the clear otherwise
ClientEncode(key) ==
    /\ wire.pc = "frame"
    /\ LET b == IF wire.frame.mask THEN masked_bytes(wire.frame, key)
                ELSE to_bytes(wire.frame)
       IN wire' = [wire EXCEPT !.pc = "bytes", !.by = "client", !.bytes = b,
                               !.full = Len(b)]
    /\ last' = [act |-> "client encode"]
    /\ UNCHANGED <<native, h3, bus, rw, net>>

\* where an encoding is cut: near its start and just before its end
Cuts(bytes) ==
    ((0..MaxPrefix) \cup {Len(bytes) - 2, Len(bytes) - 1}) \cap (0..(Len(bytes) - 1))

\* only the first k bytes have arrived
Truncate(k) ==
    /\ wire.pc = "bytes"
    /\ k \in Cuts(wire.bytes)
    /\ wire' = [wire EXCEPT !.pc = "prefix", !.frame = NoFrame,
                            !.bytes = SubSeq(wire.bytes, 1, k)]
    /\ last' = [act |-> "truncate"]
    /\ UNCHANGED <<native, h3, bus, rw, net>>

\* WebSocketFrame::parse(&bytes), in a build with or without overflow checks
Parse(overflow_checks) ==
    /\ wire.pc \in {"bytes", "prefix"}
    /\ wire' = [wire EXCEPT !.pc = IF wire.pc = "bytes" THEN "parsed" ELSE "parsed prefix",
                            !.overflow_checks = overflow_checks,
                            !.result = parse(wire.bytes, overflow_checks)]
    /\ last' = [act |-> "parse"]
    /\ UNCHANGED <<native, h3, bus, rw, net>>

WireNext ==
    \/ Encode
    \/ \E key \in MaskKeys : ClientEncode(key)
    \/ \E k \in Cuts(wire.bytes) : Truncate(k)
    \/ \E overflow_checks \in BOOLEAN : Parse(overflow_checks)

WireSpec == WireInit /\ [][WireNext]_vars

\* ------------------------------------------------------- the broadcast bus
\* the record of a step on the bus: the frame sent or received, the attempts
\* and the count of broadcast_message, what send or recv returned, and the
\* channel as the step found it
BusStep(act, r, frame, out, count, ok, lagged) ==
    [act |-> act, r |-> r, frame |-> frame, out |-> out, count |-> count,
     ok |-> ok, lagged |-> lagged, before |-> bus]

\* the registry when the heartbeats start: nobody, or one session that has
\* completed its handshake
Registries ==
    {[i \in {} |-> NewClient(i)],
     [i \in {1} |-> [NewClient(i) EXCEPT !.state = "Connected"]]}

\* the channel after n heartbeats that every Receiver alive was sent
Published(n) == [k \in 1..n |-> Heartbeat(k)]

\* the server is up; the channel is new or holds one frame less than it can,
\* the logger has read all of it or nothing, and a second Receiver may exist
BusInit ==
    /\ \E reg \in Registries :
            /\ clients = reg
            /\ conn_pc = [c \in Conns |-> IF c \in Ids(reg) THEN "loop" ELSE "init"]
            /\ admitted = [c \in Conns |-> IF c \in Ids(reg) THEN "admitted" ELSE "pending"]
    /\ close_reason = [c \in Conns |-> NoReason]
    /\ tasks = [t \in Tasks |-> FreeTask]
    /\ h3 = NewH3
    /\ wire = NoWire
    /\ rw = NewLock
    /\ net = NoNet
    /\ \E n \in {0, broadcast_capacity - 1}, alive \in {{"rx"}, Receivers} :
        \E at \in [Receivers -> {0, n}] :
            bus = [NewBus EXCEPT !.ring = Published(n), !.published = n,
                                 !.clock = n,
                                 !.next = [r \in alive |-> at[r]],
                                 !.seen = [r \in Receivers |->
                                              IF r \in alive THEN at[r] ELSE 0]]
    /\ last = [act |-> "new"]

\* start_heartbeat_task, one tick: broadcast_message writes to the sessions
\* and then hands the frame to the channel
HeartbeatTick ==
    /\ bus.ticks < MaxTicks
    /\ LET frame == Heartbeat(bus.clock + 1)
           b == broadcast_message(clients, close_reason, frame)
           p == broadcast_publish(bus, frame, b.count)
       IN /\ bus' = [p.bus EXCEPT !.clock = @ + 1, !.ticks = @ + 1]
          /\ last' = BusStep("broadcast", None, frame, b.out, b.count, p.ok, 0)
    /\ UNCHANGED <<native, h3, wire, rw, net>>

\* recv of Receiver r returns
Recv(r) ==
    /\ r \in DOMAIN bus.next
    /\ bus.next[r] < bus.published
    /\ bus.recvs < MaxRecvs

\* main.rs, the logger: while let Ok(frame) = broadcast_rx.recv().await; an
\* Err ends the loop and the task, and its Receiver is dropped
LoggerRecv ==
    /\ Recv("rx")
    /\ LET r == bus_recv(bus, "rx")
       IN /\ bus' = IF r.ok
                    THEN [r.bus EXCEPT !.seen["rx"] = r.frame.timestamp,
                                       !.recvs = @ + 1]
                    ELSE [bus_drop(r.bus, "rx") EXCEPT !.recvs = @ + 1]
          /\ last' = BusStep("recv", "rx", r.frame, <<>>, 0, r.ok, r.lagged)
    /\ UNCHANGED <<native, h3, wire, rw, net>>

\* get_broadcast_sender().subscribe()
BusSubscribe ==
    /\ "sub" \notin DOMAIN bus.next
    /\ bus' = [bus_subscribe(bus, "sub") EXCEPT !.seen["sub"] = bus.clock]
    /\ last' = BusStep("subscribe", "sub", NoMsg, <<>>, 0, TRUE, 0)
    /\ UNCHANGED <<native, h3, wire, rw, net>>

\* a Receiver whose owner goes on after Lagged
SubscriberRecv ==
    /\ Recv("sub")
    /\ LET r == bus_recv(bus, "sub")
       IN /\ bus' = IF r.ok
                    THEN [r.bus EXCEPT !.seen["sub"] = r.frame.timestamp,
                                       !.recvs = @ + 1]
                    ELSE [r.bus EXCEPT !.recvs = @ + 1]
          /\ last' = BusStep("recv", "sub", r.frame, <<>>, 0, r.ok, r.lagged)
    /\ UNCHANGED <<native, h3, wire, rw, net>>

BusNext ==
    \/ HeartbeatTick
    \/ LoggerRecv
    \/ BusSubscribe
    \/ SubscriberRecv
    \/ \E c \in Conns, why \in PeerReasons : ConnectionLost(c, why)

BusSpec == BusInit /\ [][BusNext]_vars

\* ------------------------------------------------------ the registry's lock
\* no call is under way
LockInit ==
    /\ NativeInit
    /\ h3 = NewH3
    /\ wire = NoWire
    /\ bus = NewBus
    /\ rw = NewLock
    /\ net = NoNet
    /\ last = [act |-> "new", p |-> None]

LockStep(act, p, l) ==
    /\ rw' = l
    /\ last' = [act |-> act, p |-> p]
    /\ UNCHANGED <<native, h3, wire, bus, net>>

\* task p calls a method of the ClientManager
Call(p, op) ==
    /\ rw.proc[p].op = None
    /\ LockStep("call", p, [rw EXCEPT !.proc[p] = [Idle EXCEPT !.op = op, !.at = 1]])

\* clients.read().await or clients.write().await: p joins those who wait
Request(p) ==
    /\ rw.proc[p].op # None
    /\ rw.proc[p].phase = "ready"
    /\ Item(rw, p) \in {"read", "write"}
    /\ LockStep("request", p, [rw EXCEPT !.queue = Append(@, p),
                                         !.proc[p].phase = "waiting"])

\* p gets its guard
Grant(p) ==
    /\ rw.proc[p].phase = "waiting"
    /\ can_grant(rw, p, Item(rw, p))
    /\ LockStep("grant", p,
                Done([lock_grant(rw, p, Item(rw, p))
                         EXCEPT !.proc[p].guards = Append(@, Item(rw, p))], p))

\* send_message: connection.open_uni().await, which waits for the peer's
\* stream credit when the receiver is slow
OpenUni(p, slow) ==
    /\ rw.proc[p].op # None
    /\ rw.proc[p].phase = "ready"
    /\ Item(rw, p) = "send"
    /\ LockStep("open_uni", p,
                [rw EXCEPT !.proc[p].phase = IF slow THEN "stalled" ELSE "sending"])

\* the peer grants credit, or its connection ends and open_uni fails
Credit(p) ==
    /\ rw.proc[p].phase = "stalled"
    /\ LockStep("credit", p, [rw EXCEPT !.proc[p].phase = "sending"])

\* send_message returns, Ok or Err
SendDone(p) ==
    /\ rw.proc[p].phase = "sending"
    /\ LockStep("sent", p, Done(rw, p))

\* the guard taken last goes out of scope
Unlock(p) ==
    /\ rw.proc[p].op # None
    /\ rw.proc[p].phase = "ready"
    /\ Item(rw, p) = "unlock"
    /\ LET g == rw.proc[p].guards
       IN LockStep("unlock", p,
                   Done([lock_release(rw, p, g[Len(g)])
                            EXCEPT !.proc[p].guards = SubSeq(g, 1, Len(g) - 1)], p))

LockNext ==
    \/ \E p \in Procs : \E op \in Calls(p) : Call(p, op)
    \/ \E p \in Procs : Request(p)
    \/ \E p \in Procs : Grant(p)
    \/ \E p \in Procs, slow \in BOOLEAN : OpenUni(p, slow)
    \/ \E p \in Procs : Credit(p)
    \/ \E p \in Procs : SendDone(p)
    \/ \E p \in Procs : Unlock(p)

LockSpec == LockInit /\ [][LockNext]_vars

\* every task that can take a step takes it in the end, and every send
\* completes or fails in the end; nobody has to call anything
FairLockSpec ==
    /\ LockSpec
    /\ \A p \in Procs :
            /\ WF_vars(Request(p))
            /\ WF_vars(Grant(p))
            /\ WF_vars(\E slow \in BOOLEAN : OpenUni(p, slow))
            /\ WF_vars(Credit(p))
            /\ WF_vars(SendDone(p))
            /\ WF_vars(Unlock(p))

\* ---------------------------------------------------------- mode and ALPN
NetInit ==
    /\ NativeInit
    /\ h3 = NewH3
    /\ wire = NoWire
    /\ bus = NewBus
    /\ rw = NewLock
    /\ net = NoNet
    /\ last = [act |-> "new", c |-> 0]

NetStep(act, c, n) ==
    /\ net' = n
    /\ last' = [act |-> act, c |-> c]
    /\ UNCHANGED <<native, h3, wire, bus, rw>>

\* main: create_server_config, Endpoint::server, then the server of the mode
\* runs, or main returns "Invalid server mode"
Main(mode) ==
    /\ net.mode = None
    /\ NetStep("main", 0, [net EXCEPT !.mode = mode,
                                      !.alpn_protocols = create_server_config.alpn_protocols,
                                      !.serving = server_mode(mode)])

\* a client connects: the TLS handshake settles the ALPN or fails
ClientHello(c, offer) ==
    /\ net.serving \in {"server", "h3_server"}
    /\ net.conns[c].pc = "init"
    /\ \A d \in NetConns : d < c => net.conns[d].pc # "init"
    /\ LET alpn == negotiate(net.alpn_protocols, offer)
       IN NetStep("hello", c,
                  [net EXCEPT !.conns[c] = [pc |-> IF alpn = None THEN "refused"
                                                   ELSE "connecting",
                                            offer |-> offer, alpn |-> alpn, by |-> None]])

\* run: endpoint.accept() yields the connection and handle_connection of the
\* server that runs is spawned for it
EndpointAccept(c) ==
    /\ net.conns[c].pc = "connecting"
    /\ NetStep("accept", c, [net EXCEPT !.conns[c].pc = "handled",
                                        !.conns[c].by = net.serving])

NetNext ==
    \/ \E mode \in Modes : Main(mode)
    \/ \E c \in NetConns, offer \in ClientOffers : ClientHello(c, offer)
    \/ \E c \in NetConns : EndpointAccept(c)

NetSpec == NetInit /\ [][NetNext]_vars

\* ----------------------------------------------------------------- claims
Registered == DOMAIN clients

\* the registry and the task as the last step found them
Before == last.clients
RegisteredBefore == DOMAIN Before
ConnectedBefore == {i \in RegisteredBefore : Before[i].state = "Connected"}

\* the last step was a step of task t's handler
Stepped(t) == last.act = "handle" /\ last.t = t

\* the last step was task t's step from pc for the message type
StepAt(t, pc, type) ==
    Stepped(t) /\ last.task.pc = pc /\ last.task.msg.type = type

\* the last step admitted or refused connection c
Decided(c) == last.act = "connect" /\ last.c = c

\* C1: a connection is admitted exactly when fewer than max_sessions sessions
\* are registered, a refused admission inserts nothing, and the registry
\* never holds more than max_sessions sessions.
C1_AdmissionBound ==
    /\ Cardinality(Registered) <= MaxClients
    /\ \A c \in Conns :
            Decided(c) =>
                /\ last.admitted[c] = "pending"
                /\ IF Cardinality(RegisteredBefore) < MaxClients
                   THEN /\ admitted[c] = "admitted"
                        /\ Registered = RegisteredBefore \cup {c}
                        /\ c \notin RegisteredBefore
                   ELSE /\ admitted[c] = "refused"
                        /\ clients = Before

C1_Witness ==
    /\ Cardinality(Registered) = MaxClients
    /\ \E c \in Conns : admitted[c] = "refused" /\ Decided(c)

\* C2: a connection whose admission was refused is closed with 1008 "Server
\* full", has no session record, never has a stream dispatched, stays
\* refused, and its refusal leaves the registry and the running tasks as
\* they were.
C2_AdmissionRejection ==
    /\ \A c \in Conns :
            admitted[c] = "refused" =>
                /\ close_reason[c] = [by |-> "server", code |-> 1008, reason |-> "Server full"]
                /\ c \notin Registered
                /\ \A t \in Tasks : tasks[t].c # c
    /\ \A c \in Conns :
            (Decided(c) /\ admitted[c] = "refused") =>
                clients = Before /\ last.task = FreeTask
    /\ \A c \in Conns : last.admitted[c] = "refused" => admitted[c] = "refused"
    /\ last.act \in {"connect", "lost", "exit", "reap"} => last.t = 0

C2_Witness ==
    \E c \in Conns :
        /\ admitted[c] = "refused"
        /\ Cardinality(Registered) = MaxClients
        /\ \E t \in Tasks : tasks[t].pc = "done"

Rank(state) ==
    CASE state = "Connecting" -> 0
      [] state = "Connected" -> 1
      [] state = "Closing" -> 2
      [] state = "Disconnected" -> 3
      [] state = "Closed" -> 3

Sender(t) == tasks[t].c

\* the writes task t attempted in the step it has just taken
Written(t) == tasks[t].out

Targets(out) == {out[k].to : k \in 1..Len(out)}

\* C4: while a session is Connecting, a message that is not a Handshake is
\* ignored: no reply, no frame to any session, no change to the registry.
C4_ConnectingIgnores ==
    \A t \in Tasks :
        (/\ Stepped(t)
         /\ last.task.msg.type # "Handshake"
         /\ Sender(t) \in RegisteredBefore
         /\ Before[Sender(t)].state = "Connecting") =>
            Written(t) = <<>> /\ clients = Before

\* the response step of a Handshake from a registered session: exactly one
\* HandshakeResponse with the session's id, the server's name, accepted and
\* reason; a rejected handshake changes nothing in the registry
C5_Response(t) ==
    (StepAt(t, "start", "Handshake") /\ Sender(t) \in RegisteredBefore) =>
        LET v == last.task.msg.protocol_version
            out == Written(t)
        IN /\ Len(out) = 1
           /\ out[1].to = Sender(t)
           /\ out[1].frame.type = "HandshakeResponse"
           /\ out[1].frame.client_id = Sender(t)
           /\ out[1].frame.server_name = "QUIC WebSocket Server"
           /\ out[1].frame.accepted = (v = "1.0")
           /\ out[1].frame.reason =
                (IF v = "1.0" THEN <<>>
                 ELSE <<"Unsupported protocol version: ", v, ". Expected: ", "1.0">>)
           /\ v # "1.0" => (clients = Before /\ tasks[t].pc = "done")

\* the session of a finished, accepted Handshake is Connected and named
C5_Outcome(t) ==
    LET c == Sender(t)
    IN /\ clients[c].state = "Connected"
       /\ tasks[t].msg.client_name # "None" => clients[c].name = tasks[t].msg.client_name

HandshakeDone(t) ==
    /\ tasks[t].pc = "done"
    /\ tasks[t].msg.type = "Handshake"
    /\ tasks[t].msg.protocol_version = "1.0"
    /\ Sender(t) \in Registered

\* C5 as stated: one HandshakeResponse per Handshake of a registered session;
\* accepted = (version = "1.0"); if accepted the name is set and the state
\* becomes Connected, if not the reason is given and name and state stay.
C5_HandshakeOutcome_AsStated ==
    \A t \in Tasks :
        /\ C5_Response(t)
        /\ HandshakeDone(t) => C5_Outcome(t)

\* C5 amended: as stated, but the name is set and the state becomes Connected
\* only when the HandshakeResponse was written; when that write fails the
\* handler returns the error and leaves the registry as it was.
C5_HandshakeOutcome ==
    \A t \in Tasks :
        /\ C5_Response(t)
        /\ (HandshakeDone(t) /\ tasks[t].ok) => C5_Outcome(t)
        /\ (StepAt(t, "start", "Handshake") /\ Sender(t) \in RegisteredBefore
                /\ ~Written(t)[1].ok) =>
                (clients = Before /\ tasks[t].pc = "done" /\ ~tasks[t].ok)

\* an accepted handshake with a name has completed
C5_Witness ==
    \E t \in Tasks :
        /\ HandshakeDone(t)
        /\ tasks[t].ok
        /\ tasks[t].msg.client_name = "Alice"
        /\ clients[Sender(t)].name = "Alice"
        /\ clients[Sender(t)].state = "Connected"

\* C6: a Broadcast of Connected session S is written once to every session
\* Connected at fan-out time, S included, with from = S.id; S is then sent
\* Text "Broadcast sent to N clients", N the number of successful writes.
C6_BroadcastHandling ==
    \A t \in Tasks :
        /\ (StepAt(t, "start", "Broadcast") /\ Sender(t) \in ConnectedBefore) =>
                LET out == Written(t)
                IN /\ Targets(out) = ConnectedBefore
                   /\ Len(out) = Cardinality(ConnectedBefore)
                   /\ Sender(t) \in Targets(out)
                   /\ \A k \in 1..Len(out) :
                        out[k].frame = [type |-> "Broadcast", from |-> Sender(t),
                                        content |-> last.task.msg.content]
                   /\ tasks[t].sent_count = Cardinality({k \in 1..Len(out) : out[k].ok})
                   /\ (Cardinality(ConnectedBefore) = 2
                        /\ \A i \in ConnectedBefore : close_reason[i].by = "none")
                        => tasks[t].sent_count = 2
        /\ (StepAt(t, "bc_ack", "Broadcast") /\ Sender(t) \in RegisteredBefore) =>
                LET out == Written(t)
                IN /\ Len(out) = 1
                   /\ out[1].to = Sender(t)
                   /\ out[1].frame = [type |-> "Text",
                        content |-> <<"Broadcast sent to ", last.task.sent_count, " clients">>]

\* the sender has been told that its broadcast reached two clients
C6_Witness ==
    \E t \in Tasks :
        /\ tasks[t].pc = "done"
        /\ tasks[t].msg.type = "Broadcast"
        /\ tasks[t].sent_count = 2
        /\ Len(tasks[t].out) = 1
        /\ tasks[t].out[1].ok
        /\ tasks[t].out[1].frame.content = <<"Broadcast sent to ", 2, " clients">>

\* the target of a DirectMessage is looked up; an unknown target gets nothing
\* and the sender exactly one Error 1002, the registry staying as it was
C7_Lookup(t) ==
    /\ StepAt(t, "start", "DirectMessage") =>
        /\ Written(t) = <<>>
        /\ clients = Before
        /\ (last.task.msg.to \in RegisteredBefore) <=> (tasks[t].pc = "dm_send")
        /\ (last.task.msg.to \notin RegisteredBefore) <=> (tasks[t].pc = "dm_err")
    /\ StepAt(t, "dm_err", "DirectMessage") =>
        /\ clients = Before
        /\ Targets(Written(t)) \subseteq {Sender(t)}
        /\ Sender(t) \in RegisteredBefore =>
            /\ Len(Written(t)) = 1
            /\ Written(t)[1].frame = [type |-> "Error", code |-> 1002,
                                      message |-> "Target client not found"]

C7_Delivery(t) ==
    (StepAt(t, "dm_send", "DirectMessage") /\ last.task.msg.to \in RegisteredBefore) =>
        /\ Len(Written(t)) = 1
        /\ Written(t)[1].to = last.task.msg.to
        /\ Written(t)[1].frame = [type |-> "DirectMessage", from |-> Sender(t),
                to |-> last.task.msg.to, content |-> last.task.msg.content]

C7_Ack(t) ==
    (StepAt(t, "dm_ack", "DirectMessage") /\ Sender(t) \in RegisteredBefore) =>
        /\ Len(Written(t)) = 1
        /\ Written(t)[1].to = Sender(t)
        /\ Written(t)[1].frame = [type |-> "Text", content |-> "Direct message sent"]

C8_RegistryBroadcast ==
    \A t \in Tasks :
        StepAt(t, "start", "Broadcast") =>
            LET out == Written(t)
            IN /\ \A i \in ConnectedBefore : Cardinality({k \in 1..Len(out) : out[k].to = i}) = 1
               /\ \A k \in 1..Len(out) : out[k].to \in ConnectedBefore
               /\ \A k \in 1..Len(out) : out[k].ok = (close_reason[out[k].to].by = "none")
               /\ tasks[t].sent_count = Cardinality({k \in 1..Len(out) : out[k].ok})

\* a write failed and the next session was still written to
C8_Witness ==
    \E t \in Tasks :
        /\ tasks[t].pc = "bc_ack"
        /\ Len(tasks[t].out) = 2
        /\ ~tasks[t].out[1].ok
        /\ tasks[t].out[2].ok
        /\ tasks[t].sent_count = 1

\* the last step of task t was one call of send_to_client, and the id it passed
SendStep(t) ==
    /\ Stepped(t)
    /\ \/ last.task.pc = "start"
            /\ last.task.msg.type \in {"Handshake", "Text", "Binary", "Ping", "Pong"}
       \/ last.task.pc \in {"bc_ack", "dm_send", "dm_ack", "dm_err", "list_send"}

SendId(t) == IF last.task.pc = "dm_send" THEN last.task.msg.to ELSE Sender(t)

C9_Absent(t) ==
    (SendStep(t) /\ SendId(t) \notin RegisteredBefore) =>
        /\ Written(t) = <<>>
        /\ clients = Before
        /\ tasks[t].ok

\* C9 as stated, on the call that carries the reply to a Handshake: send_to
\* writes only to a session that exists and is Connected; for an absent id
\* it writes nothing, changes nothing and returns success.
C9_SendTo_AsStated ==
    \A t \in Tasks :
        /\ C9_Absent(t)
        /\ (StepAt(t, "start", "Handshake") /\ SendId(t) \in RegisteredBefore) =>
                \A k \in 1..Len(Written(t)) :
                    /\ Written(t)[k].to \in RegisteredBefore
                    /\ Before[Written(t)[k].to].state = "Connected"

\* C9 amended: send_to writes the frame exactly when a session with the id
\* exists, whatever its state; for an absent id it writes nothing, changes
\* nothing and returns success.
C9_SendTo ==
    \A t \in Tasks :
        /\ C9_Absent(t)
        /\ (SendStep(t) /\ SendId(t) \in RegisteredBefore) =>
                /\ Len(Written(t)) = 1
                /\ Written(t)[1].to = SendId(t)
                /\ tasks[t].ok = Written(t)[1].ok

\* a reply was due to a session that is no longer registered: nothing was
\* written and the handler returned Ok
C9_Witness ==
    \E t \in Tasks :
        /\ StepAt(t, "start", "Text")
        /\ tasks[t].pc = "done"
        /\ Sender(t) \notin RegisteredBefore
        /\ tasks[t].out = <<>>
        /\ tasks[t].ok

\* C10: a Close from a registered session removes that session and only that
\* one: the count drops by one, a lookup finds nothing, it is in no later
\* client list and no later fan-out; the other sessions are untouched.
C10_CloseHandling ==
    \A t \in Tasks :
        /\ (StepAt(t, "start", "Close") /\ Sender(t) \in RegisteredBefore) =>
                /\ Sender(t) \notin Registered
                /\ ~get_client(clients, Sender(t))
                /\ Cardinality(Registered) = Cardinality(RegisteredBefore) - 1
                /\ \A d \in RegisteredBefore \ {Sender(t)} :
                        d \in Registered /\ clients[d] = Before[d]
        /\ StepAt(t, "start", "ListClients") =>
                {i.id : i \in tasks[t].list} = RegisteredBefore
        /\ StepAt(t, "start", "Broadcast") =>
                Targets(Written(t)) \subseteq RegisteredBefore

\* a Close was handled: its session is gone, another one is still there
C10_Witness ==
    \E t \in Tasks :
        /\ StepAt(t, "start", "Close")
        /\ Sender(t) \in RegisteredBefore
        /\ Sender(t) \notin Registered
        /\ Registered # {}

\* C11: every admitted connection gets an id no registered session has, a
\* record carries the id it is filed under, and an id that was admitted and
\* is no longer registered is never registered again, whatever a late
\* handshake, set_name, set_state or send_to does with it.
C11_SessionIdUnique ==
    /\ \A c \in Registered : clients[c].id = c /\ admitted[c] = "admitted"
    /\ \A c \in Conns :
            (Decided(c) /\ admitted[c] = "admitted") =>
                c \notin RegisteredBefore /\ clients[c] = NewClient(c)
    /\ \A c \in Conns :
            (last.admitted[c] = "admitted" /\ c \notin RegisteredBefore) =>
                c \notin Registered

\* the last step of a late handshake ran for a session that had been removed
C11_Witness ==
    \E t \in Tasks :
        /\ StepAt(t, "set_state", "Handshake")
        /\ admitted[Sender(t)] = "admitted"
        /\ Sender(t) \notin RegisteredBefore
        /\ Sender(t) \notin Registered

Dead(S) == {i \in S : IsClosed(close_reason, i)}

\* C13: a run of the reaper removes exactly the sessions whose connection
\* reports a close reason, leaves the others as they were and returns the
\* number removed; run again at once it removes nothing and returns 0.
C13_ReapDead ==
    last.act = "reap" =>
        /\ Registered = RegisteredBefore \ Dead(RegisteredBefore)
        /\ \A i \in Registered : clients[i] = Before[i]
        /\ last.ret = Cardinality(Dead(RegisteredBefore))
        /\ last.ret = Cardinality(RegisteredBefore) - Cardinality(Registered)
        /\ Dead(RegisteredBefore) = {} => (last.ret = 0 /\ clients = Before)
        /\ LET again == cleanup_disconnected_clients(clients, close_reason)
           IN again.removed_count = 0 /\ again.clients = clients

\* the reaper has removed a dead session and left a live one
C13_Witness ==
    /\ last.act = "reap"
    /\ last.ret = 1
    /\ Cardinality(RegisteredBefore) = 2
    /\ \E i \in Registered : ~IsClosed(close_reason, i)

\* the last step was handle_stream handing a frame of task t to handle_message
Dispatched(t) == last.act = "read" /\ last.t = t /\ tasks[t].pc = "start"

\* C14: every inbound message dispatched for a registered session adds one
\* to that session's message_count in the registry.
C14_ActivityAccounting ==
    \A t \in Tasks :
        (Dispatched(t) /\ Sender(t) \in RegisteredBefore) =>
            /\ Sender(t) \in Registered
            /\ clients[Sender(t)].message_count = Before[Sender(t)].message_count + 1

\* a registry record without its activity counter
Core(rec) == [rec EXCEPT !.message_count = 0]

SameButCounters ==
    /\ Registered = RegisteredBefore
    /\ \A i \in Registered : Core(clients[i]) = Core(Before[i])

\* C15: for a Connected session a Text{content} is answered by exactly one
\* Text{"Echo: " + content} and a Binary{data} by exactly one Binary{data},
\* written to the originating session only; nothing but activity counters
\* changes in the registry.
C15_NativeEcho ==
    \A t \in Tasks :
        /\ (StepAt(t, "start", "Text") /\ Sender(t) \in ConnectedBefore) =>
                /\ Len(Written(t)) = 1
                /\ Written(t)[1].to = Sender(t)
                /\ Written(t)[1].frame =
                        [type |-> "Text", content |-> <<"Echo: ", last.task.msg.content>>]
                /\ tasks[t].pc = "done"
                /\ SameButCounters
        /\ (StepAt(t, "start", "Binary") /\ Sender(t) \in ConnectedBefore) =>
                /\ Len(Written(t)) = 1
                /\ Written(t)[1].to = Sender(t)
                /\ Written(t)[1].frame = [type |-> "Binary", data |-> last.task.msg.data]
                /\ tasks[t].pc = "done"
                /\ SameButCounters
        /\ (Dispatched(t) /\ tasks[t].msg.type \in {"Text", "Binary"}) =>
                Written(t) = <<>> /\ SameButCounters

\* a Binary of a Connected session was echoed while another session was
\* Connected too
C15_Witness ==
    \E t \in Tasks :
        /\ StepAt(t, "start", "Binary")
        /\ Sender(t) \in ConnectedBefore
        /\ Cardinality(ConnectedBefore) = 2
        /\ Len(Written(t)) = 1
        /\ Written(t)[1].ok

\* the message types that handle_message routes to a handler of their own
Routed ==
    {"Handshake", "Text", "Binary", "Broadcast", "DirectMessage", "Ping",
     "ListClients", "Subscribe", "Unsubscribe", "Close"}

\* C16: a Connected session that sends a message of a type with no handler
\* is sent exactly one Error{1001, "Unsupported message type"} and stays
\* registered as it was.
C16_UnsupportedType ==
    \A t \in Tasks :
        (/\ Stepped(t)
         /\ last.task.pc = "start"
         /\ last.task.msg.type \notin Routed
         /\ Sender(t) \in ConnectedBefore) =>
            /\ Len(Written(t)) = 1
            /\ Written(t)[1].to = Sender(t)
            /\ Written(t)[1].frame = [type |-> "Error", code |-> 1001,
                                      message |-> "Unsupported message type"]
            /\ tasks[t].pc = "done"
            /\ clients = Before

\* a ServerPush sent by a Connected client was answered with the error
C16_Witness ==
    \E t \in Tasks :
        /\ StepAt(t, "start", "ServerPush")
        /\ Sender(t) \in ConnectedBefore
        /\ Len(Written(t)) = 1
        /\ Written(t)[1].ok
        /\ Written(t)[1].frame.type = "Error"
        /\ clients[Sender(t)].state = "Connected"

\* the last step was handle_stream reading the stream of task t
ReadBy(t) == last.act = "read" /\ last.t = t

\* the stream is one of the claim's protocol errors
Oversize(s) == s.prefix = 4 /\ s.len > 1048576
Truncated(s) == s.prefix < 4 \/ (s.len <= 1048576 /\ s.body < s.len)
Undecodable(s) ==
    s.prefix = 4 /\ s.len <= 1048576 /\ s.body >= s.len /\ s.payload.type = "Garbage"

\* C17: a stream whose length prefix exceeds 1 MiB, whose payload does not
\* decode or that ends early is dropped: nothing is dispatched, nothing is
\* written, the registry stays as it was and the connection stays open with
\* its dispatcher in the accept loop; a length of exactly 1 MiB is accepted.
C17_ProtocolErrors ==
    \A t \in Tasks :
        ReadBy(t) =>
            LET s == last.task.stream
            IN /\ (Oversize(s) \/ Truncated(s) \/ Undecodable(s)) =>
                    /\ tasks[t].pc = "done"
                    /\ tasks[t].msg = [type |-> "None"]
                    /\ Written(t) = <<>>
                    /\ clients = Before
                    /\ close_reason[Sender(t)].by # "server"
                    /\ (Sender(t) \in Registered /\ ~IsClosed(close_reason, Sender(t)))
                            => conn_pc[Sender(t)] = "loop"
               /\ (s.prefix = 4 /\ s.len = 1048576 /\ s.body = s.len
                        /\ s.payload.type # "Garbage") =>
                    /\ tasks[t].pc = "start"
                    /\ tasks[t].msg = s.payload
               /\ tasks[t].pc = "start" => ~(Oversize(s) \/ Truncated(s) \/ Undecodable(s))

\* an oversize stream of a Connected session was dropped; the session is
\* still Connected and its connection open
C17_Witness ==
    \E t \in Tasks :
        /\ ReadBy(t)
        /\ last.task.stream.len = 1048577
        /\ tasks[t].pc = "done"
        /\ Sender(t) \in Registered
        /\ clients[Sender(t)].state = "Connected"
        /\ ~IsClosed(close_reason, Sender(t))
        /\ conn_pc[Sender(t)] = "loop"

\* the last step was a tick of a push engine
Pushed == last.act = "push"

\* the sessions that are Connected and hold the topic
Subscribers(topic) ==
    {i \in Registered : clients[i].state = "Connected" /\ topic \in clients[i].subscriptions}

\* C18: a push on a topic writes the frame once to every session that is
\* Connected and holds the topic at that time and to no other session; a
\* session without the topic gets nothing from a push engine.
C18_TopicPush ==
    Pushed =>
        /\ Targets(last.out) = Subscribers(last.topic)
        /\ Len(last.out) = Cardinality(Subscribers(last.topic))
        /\ \A k \in 1..Len(last.out) :
                /\ last.out[k].frame.type = "ServerPush"
                /\ last.out[k].frame.topic = last.topic
                /\ last.out[k].ok = ~IsClosed(close_reason, last.out[k].to)
        /\ last.ret = Cardinality({k \in 1..Len(last.out) : last.out[k].ok})
        /\ clients = Before

\* a push reached the one subscriber of its topic and not the Connected
\* session that has unsubscribed or never subscribed
C18_Witness ==
    /\ Pushed
    /\ Len(last.out) = 1
    /\ last.out[1].ok
    /\ \E i \in Registered :
            /\ clients[i].state = "Connected"
            /\ last.topic \notin clients[i].subscriptions
            /\ clients[i].subscriptions # {}

\* the registry after subscribe(id, T) followed by unsubscribe(id, T)
SubThenUnsub(id, T) == unsubscribe_topics(subscribe_topics(clients, id, T), id, T)

\* C19 as stated: subscribe(id, T) followed by unsubscribe(id, T) leaves the
\* session's subscriptions equal to their value before the subscribe,
\* whatever that value was.
C19_SubscriptionSafety_AsStated ==
    \A id \in Registered, T \in TopicLists :
        SubThenUnsub(id, T)[id].subscriptions = clients[id].subscriptions

\* C19 amended: subscribe(id, T) followed by unsubscribe(id, T) leaves the
\* session's subscriptions equal to their prior value without the topics of
\* T, which is the prior value when the session held none of them (and for
\* a session that is not Connected, whose subscriptions neither call
\* changes); no other session is changed.  So does each handler's call.
C19_SubscriptionSafety ==
    /\ \A id \in Registered, T \in TopicLists :
            LET after == SubThenUnsub(id, T)
                prior == clients[id].subscriptions
                held == IF clients[id].state = "Connected" THEN Range(T) ELSE {}
            IN /\ after[id].subscriptions = prior \ held
               /\ (prior \cap held = {}) => after = clients
               /\ \A j \in Registered \ {id} : after[j] = clients[j]
    /\ \A t \in Tasks :
            (Stepped(t) /\ last.task.pc = "start" /\ Sender(t) \in ConnectedBefore) =>
                LET prior == Before[Sender(t)].subscriptions
                    T == Range(last.task.msg.topics)
                IN /\ last.task.msg.type = "Subscribe" =>
                        clients[Sender(t)].subscriptions = prior \cup T
                   /\ last.task.msg.type = "Unsubscribe" =>
                        clients[Sender(t)].subscriptions = prior \ T

\* a session that held both topics has unsubscribed from one of them
C19_Witness ==
    \E t \in Tasks :
        /\ StepAt(t, "start", "Unsubscribe")
        /\ Sender(t) \in ConnectedBefore
        /\ Before[Sender(t)].subscriptions = {"stocks", "news"}
        /\ clients[Sender(t)].subscriptions = {"news"}

\* the sessions an eviction has run for: the dispatcher has left its loop,
\* the last step handled the session's Close, or the last step was the
\* reaper finding the session's connection closed
Evicted ==
    {c \in Conns : conn_pc[c] = "done"}
    \cup {c \in RegisteredBefore : \E t \in Tasks : StepAt(t, "start", "Close") /\ Sender(t) = c}
    \cup {c \in RegisteredBefore : last.act = "reap" /\ IsClosed(close_reason, c)}

IsUpgrade(req) ==
    /\ req.upgrade \in {"websocket", "WebSocket"}
    /\ req.connection \in {"Upgrade", "keep-alive, Upgrade"}
    /\ req.version = "13"
    /\ req.key # None

\* the streams that carry a request
Accepted == {s \in H3Streams : h3.streams[s].pc # "free"}

\* an unmasked final frame on the wire, for a payload of fewer than 126 bytes
Unmasked(opcode_byte, payload) == <<128 + opcode_byte, Len(payload)>> \o payload

\* the welcome text in UTF-8
WelcomeBytes ==
    as_bytes("Welcome to ") \o as_bytes("QUIC WebSocket Server")
        \o as_bytes(" (HTTP/3 WebSocket)!")

Scripted == Scripts[last.stream.script][Len(last.stream.frames) + 1]

FrameHandled == last.act = "h3 frame" /\ last.frame # NoFrame

\* C22: a Text frame of the client is answered by one unmasked Text frame with
\* the client's payload, a Binary by one Binary, a Ping by one Pong, a Pong
\* by nothing, whether or not the client masked the frame.
C22_ReplyMapping ==
    FrameHandled =>
        /\ Len(last.stream.frames) < Len(Scripts[last.stream.script])
        /\ last.frame.opcode = Scripted.opcode
        /\ Scripted.opcode = "Text" =>
              last.out = <<[kind |-> "data", bytes |-> Unmasked(1, Scripted.payload)]>>
        /\ Scripted.opcode = "Binary" =>
              last.out = <<[kind |-> "data", bytes |-> Unmasked(2, Scripted.payload)]>>
        /\ Scripted.opcode = "Ping" =>
              last.out = <<[kind |-> "data", bytes |-> Unmasked(10, Scripted.payload)]>>
        /\ Scripted.opcode = "Pong" => last.out = <<>>
        /\ h3.streams[last.s].sent =
              last.stream.sent \o (IF last.ok THEN last.out ELSE <<>>)

\* a Text frame that the client sent with mask bit 0 was answered
C22_Witness ==
    /\ FrameHandled
    /\ Scripted.opcode = "Text"
    /\ ~Scripted.mask
    /\ last.ok
    /\ last.out # <<>>

\* a Close frame was parsed on the stream
CloseSeen(s) ==
    \E i \in 1..Len(h3.streams[s].frames) : h3.streams[s].frames[i].opcode = "Close"

\* the frames written on the stream that are Close frames
ClosesSent(s) ==
    {i \in 1..Len(h3.streams[s].sent) :
        /\ h3.streams[s].sent[i].kind = "data"
        /\ h3.streams[s].sent[i].bytes = <<136, 0>>}

\* C23: once a Close frame was received the task has left the frame loop: it
\* neither waits for data nor parses, the Close is the last frame it handled,
\* and it wrote at most one Close frame, with an empty payload.
C23_CloseEndsLoop ==
    \A s \in Accepted :
        CloseSeen(s) =>
            /\ h3.streams[s].pc \notin {"loop", "parse"}
            /\ h3.streams[s].frames[Len(h3.streams[s].frames)].opcode = "Close"
            /\ Cardinality(ClosesSent(s)) <= 1

\* the task of the stream has ended
Ended(s) == h3.streams[s].pc \in {"done", "failed", "panicked"}

\* C24: when the task of an upgraded stream has ended, however it ended, it
\* has removed the record it registered.
C24_CleanupOnExit ==
    \A s \in Accepted :
        (Ended(s) /\ h3.streams[s].registered) => h3.streams[s].removed

\* the number of bytes of the first n frames of a script
RECURSIVE EndOf(_, _)
EndOf(script, n) ==
    IF n = 0 THEN 0
    ELSE EndOf(script, n - 1) +
         Len(IF Scripts[script][n].mask THEN masked_bytes(Scripts[script][n], MaskKey)
             ELSE to_bytes(Scripts[script][n]))

\* the frames of a script that are complete within its first d bytes
Complete(script, d) ==
    Cardinality({n \in 1..Len(Scripts[script]) : EndOf(script, n) <= d})

\* C25: whenever the task waits for the next chunk, it has handled exactly
\* the frames that are complete in the bytes received so far, in their order
\* and each once, however those bytes were cut into chunks, and keeps the rest.
C25_ChunkIndependence ==
    \A s \in Accepted :
        LET st == h3.streams[s]
        IN (st.pc = "loop" /\ Len(st.sent) >= 2) =>
              /\ Len(st.frames) = Complete(st.script, st.delivered)
              /\ \A i \in 1..Len(st.frames) :
                    /\ st.frames[i].opcode = Scripts[st.script][i].opcode
                    /\ st.frames[i].payload = Scripts[st.script][i].payload
              /\ Len(st.buffer) = st.delivered - EndOf(st.script, Len(st.frames))

\* ------------------------------------------------------- claims: the codec
Encoded == wire.by \in {"to_bytes", "client"}

\* C26: parsing the whole encoding of a frame, made by to_bytes or by a
\* client that masks with a key, yields the frame's fin, opcode and payload
\* and consumes the encoding to its last byte, for every payload length
\* of the three length forms.
C26_RoundTrip ==
    (wire.pc = "parsed" /\ Encoded) =>
        /\ wire.result.kind = "Some"
        /\ wire.result.frame.fin = wire.frame.fin
        /\ wire.result.frame.opcode = wire.frame.opcode
        /\ wire.result.frame.payload = wire.frame.payload
        /\ wire.result.consumed = Len(wire.bytes)

\* a frame of 65536 bytes whose mask field is set went through to_bytes and
\* parse
C26_Witness ==
    /\ wire.pc = "parsed"
    /\ wire.by = "to_bytes"
    /\ wire.frame.mask
    /\ Len(wire.frame.payload) = 65536
    /\ wire.result.kind = "Some"

\* the number of bytes before the masking key or the payload
HeaderLen(n) == IF n < 126 THEN 2 ELSE IF n < 65536 THEN 4 ELSE 10

\* C27: to_bytes emits fin<<7 | opcode, then masked<<7 | short_len with the
\* 2-byte or 8-byte big-endian length where needed; for a masked frame a
\* 4-byte key and the payload XORed with it, else the payload as it is.
C27_EncoderLayout ==
    (wire.pc = "bytes" /\ wire.by = "to_bytes") =>
        LET f == wire.frame
            b == wire.bytes
            n == Len(f.payload)
            h == HeaderLen(n)
            m == IF f.mask THEN 128 ELSE 0
        IN /\ b[1] = (IF f.fin THEN 128 ELSE 0) + WebSocketOpcode[f.opcode]
           /\ n < 126 => b[2] = m + n
           /\ (126 <= n /\ n < 65536) => (b[2] = m + 126 /\ b[3] * 256 + b[4] = n)
           /\ n >= 65536 =>
                 /\ b[2] = m + 127
                 /\ SubSeq(b, 3, 6) = <<0, 0, 0, 0>>
                 /\ ((b[7] * 256 + b[8]) * 256 + b[9]) * 256 + b[10] = n
           /\ IF f.mask
              THEN /\ Len(b) = h + 4 + n
                   /\ \A i \in 1..n : b[h + 4 + i] = xor(f.payload[i], b[h + 1 + ((i - 1) % 4)])
              ELSE /\ Len(b) = h + n
                   /\ SubSeq(b, h + 1, Len(b)) = f.payload

\* C28: parse of a proper prefix of an encoded frame returns Ok(None), and
\* neither a frame nor a panic; parse of the whole encoding returns the frame
\* and its full length.
C28_PartialParse ==
    /\ (wire.pc = "parsed prefix" /\ Encoded) => wire.result = ParseNone
    /\ (wire.pc = "parsed" /\ Encoded) =>
          /\ wire.result.kind = "Some"
          /\ wire.result.consumed = wire.full

\* a masked frame in the 64-bit length form, cut one byte before its end
C28_Witness ==
    /\ wire.pc = "parsed prefix"
    /\ wire.by = "client"
    /\ wire.full > 65536
    /\ Len(wire.bytes) = wire.full - 1
    /\ wire.bytes[2] = 255

\* C29: parse never panics, whatever the buffer: it returns Ok(None) or a
\* frame that lies within the buffer.
C29_NeverPanics ==
    wire.pc \in {"parsed", "parsed prefix"} =>
        /\ wire.result.kind \in {"None", "Some"}
        /\ wire.result.kind = "Some" => wire.result.consumed <= Len(wire.bytes)

\* ---------------------------------------------------- claims: the broadcast bus
\* Receiver r was more than the capacity of the channel behind in b
Behind(b, r) == b.published - b.next[r] > broadcast_capacity

\* what Receiver r has not got yet is what the channel holds after r's position
Ahead(b, r) ==
    \A i \in DOMAIN b.ring :
        b.ring[i].timestamp > b.seen[r] <=> i > b.next[r] - oldest(b)

\* C30: every broadcast of the registry hands its frame to the channel exactly
\* once, whatever number of sessions was written to; the channel holds at most
\* 1000 frames; a broadcast is never held up, with no Receiver or with a
\* Receiver more than 1000 frames behind; a recv that finds its Receiver more
\* than 1000 behind reports the loss and moves that Receiver alone, and every
\* other recv returns the next frame published, none left out.
C30_BroadcastBus ==
    /\ bus.ticks < MaxTicks => ENABLED HeartbeatTick
    /\ Len(bus.ring) <= broadcast_capacity
    /\ \A q \in DOMAIN bus.next : ~Behind(bus, q) => Ahead(bus, q)
    /\ last.act = "broadcast" =>
            LET b == last.before
            IN /\ last.count = CountOk(last.out)
               /\ bus.next = b.next
               /\ IF DOMAIN b.next # {}
                  THEN /\ last.ok
                       /\ bus.published = b.published + 1
                       /\ bus.ring = (IF Len(b.ring) < broadcast_capacity
                                      THEN b.ring ELSE Tail(b.ring)) \o <<last.frame>>
                       /\ Cardinality({i \in DOMAIN bus.ring :
                                          bus.ring[i] = last.frame}) = 1
                  ELSE /\ ~last.ok
                       /\ bus.published = b.published
                       /\ bus.ring = b.ring
    /\ last.act = "recv" =>
            LET b == last.before
                r == last.r
            IN /\ bus.ring = b.ring
               /\ bus.published = b.published
               /\ \A q \in DOMAIN b.next \ {r} :
                       q \in DOMAIN bus.next /\ bus.next[q] = b.next[q]
               /\ IF Behind(b, r)
                  THEN /\ ~last.ok
                       /\ last.lagged = b.published - broadcast_capacity - b.next[r]
                       /\ r \in DOMAIN bus.next =>
                               bus.next[r] = b.published - broadcast_capacity
                  ELSE /\ last.ok
                       /\ bus.next[r] = b.next[r] + 1
                       /\ last.frame.timestamp > b.seen[r]
                       /\ \A i \in DOMAIN b.ring :
                               ~(/\ b.ring[i].timestamp > b.seen[r]
                                 /\ b.ring[i].timestamp < last.frame.timestamp)

\* the logger fell more than 1000 frames behind and is gone, the session's
\* connection is closed, and the other Receiver gets the frame published last
C30_Witness ==
    /\ last.act = "recv"
    /\ last.r = "sub"
    /\ last.ok
    /\ last.frame = Heartbeat(bus.clock)
    /\ bus.published > broadcast_capacity
    /\ "rx" \notin DOMAIN bus.next
    /\ 1 \in Ids(clients)
    /\ IsClosed(close_reason, 1)

\* ------------------------------------------- claims: the handlers, interleaved
\* task t's last step wrote the accepting HandshakeResponse to its session
ResponseWritten(t) ==
    /\ StepAt(t, "start", "Handshake")
    /\ Sender(t) \in RegisteredBefore
    /\ Len(Written(t)) = 1
    /\ Written(t)[1].ok
    /\ Written(t)[1].frame.accepted

\* C35: whenever a session has been sent HandshakeResponse{accepted: true},
\* the registry already shows it as Connected, with the name it gave, so that
\* a fan-out that follows the response includes it.
C35_HandshakeVisibility ==
    \A t \in Tasks :
        (ResponseWritten(t) /\ Sender(t) \in Registered) => C5_Outcome(t)

\* the response to the Handshake of a registered session could not be written
ResponseFailed(t) ==
    /\ StepAt(t, "start", "Handshake")
    /\ Sender(t) \in RegisteredBefore
    /\ ~Written(t)[1].ok

\* C39: when the HandshakeResponse cannot be written the handler returns the
\* error and the registry stays as it was; the handler goes on to the name and
\* the state only after a response that was written, the response step itself
\* changes nothing, a name is set only by the handler's set_client_name and a
\* session becomes Connected only by its update_client_state.
C39_FailedResponse ==
    /\ \A t \in Tasks :
            /\ ResponseFailed(t) =>
                    (clients = Before /\ tasks[t].pc = "done" /\ ~tasks[t].ok)
            /\ (StepAt(t, "start", "Handshake") /\ Sender(t) \in RegisteredBefore
                    /\ tasks[t].pc \in {"set_name", "set_state"}) =>
                    (Written(t)[1].ok /\ Written(t)[1].frame.accepted)
            /\ StepAt(t, "start", "Handshake") => clients = Before
    /\ \A c \in Registered \cap RegisteredBefore :
            /\ (Before[c].state # "Connected" /\ clients[c].state = "Connected") =>
                    \E t \in Tasks : StepAt(t, "set_state", "Handshake") /\ last.c = c
            /\ Before[c].name # clients[c].name =>
                    \E t \in Tasks : StepAt(t, "set_name", "Handshake") /\ last.c = c

\* a Connecting session whose connection is closed sent an acceptable
\* Handshake: the response failed and the session is still Connecting
C39_Witness ==
    \E t \in Tasks :
        /\ ResponseFailed(t)
        /\ last.task.msg.protocol_version = "1.0"
        /\ last.task.msg.client_name = "Alice"
        /\ Sender(t) \in Registered
        /\ clients[Sender(t)].state = "Connecting"
        /\ clients[Sender(t)].name = None

\* C36: the sender of a DirectMessage is sent Text "Direct message sent" only
\* if the DirectMessage was written to the target's connection in the step
\* before; a target evicted between the lookup and the send gives no such
\* acknowledgement.
C36_TruthfulAck ==
    \A t \in Tasks :
        (/\ StepAt(t, "dm_ack", "DirectMessage")
         /\ \E k \in 1..Len(Written(t)) :
                Written(t)[k].frame = [type |-> "Text", content |-> "Direct message sent"]) =>
            /\ Len(last.task.out) = 1
            /\ last.task.out[1].to = last.task.msg.to
            /\ last.task.out[1].frame.type = "DirectMessage"
            /\ last.task.out[1].ok

\* C37: a Broadcast or DirectMessage that arrives on an open connection whose
\* session is no longer registered delivers no frame to any other session.
C37_RegisteredFanOut ==
    \A t \in Tasks :
        (/\ Stepped(t)
         /\ last.task.msg.type \in {"Broadcast", "DirectMessage"}
         /\ Sender(t) \notin RegisteredBefore
         /\ ~IsClosed(close_reason, Sender(t))) =>
            Targets(Written(t)) \subseteq {Sender(t)}

\* ------------------------------------------------- claims: mode and ALPN
\* C33: a server in native mode offers exactly quic-websocket and a server in
\* HTTP/3 mode exactly h3; a connection is handled by the server that matches
\* the ALPN it negotiated; a client that offers only quic-websocket is not
\* refused by a native-mode server.
C33_AlpnFollowsMode ==
    /\ net.serving = "server" => net.alpn_protocols = <<"quic-websocket">>
    /\ net.serving = "h3_server" => net.alpn_protocols = <<"h3">>
    /\ \A c \in NetConns :
            /\ net.conns[c].pc = "handled" =>
                    /\ net.conns[c].by = "server" <=> net.conns[c].alpn = "quic-websocket"
                    /\ net.conns[c].by = "h3_server" <=> net.conns[c].alpn = "h3"
            /\ (net.serving = "server" /\ net.conns[c].offer = <<"quic-websocket">>) =>
                    net.conns[c].pc # "refused"

\* --------------------------------------------- claims: the registry's lock
Stalled(p) == rw.proc[p].phase = "stalled"

Holders == {p \in Procs : rw.readers[p] > 0 \/ rw.writer = p}

\* C31: when every guard of the lock is held by a task whose send waits for
\* a slow receiver, the task that waits longest for the lock still gets it:
\* only the senders are held up.
C31_SlowReceiverIsolation ==
    \A q \in Procs :
        (/\ rw.proc[q].phase = "waiting"
         /\ Head(rw.queue) = q
         /\ Holders # {}
         /\ \A h \in Holders : Stalled(h)) =>
            can_grant(rw, q, Item(rw, q))

\* a task that waits for the lock holds no guard
NoNestedLock ==
    \A p \in Procs : rw.proc[p].phase = "waiting" => rw.proc[p].guards = <<>>

\* C40: no task asks for the lock while it holds a guard, and every call of
\* the ClientManager that has been started returns in the end, provided that
\* every send completes or fails in the end.
C40_CallsReturn ==
    /\ []NoNestedLock
    /\ \A p \in Procs : (rw.proc[p].op # None) ~> (rw.proc[p].op = None)

\* a writer waits behind a reader whose send is stalled, and a reader waits
\* behind that writer
C40_Witness ==
    /\ Len(rw.queue) >= 2
    /\ Item(rw, rw.queue[1]) = "write"
    /\ Item(rw, rw.queue[2]) = "read"
    /\ \E h \in Holders : Stalled(h)
\* ------------------------------------- claims: the HTTP/3 server's sessions
\* the first byte of the frame that the last step parsed
FirstByte == last.stream.buffer[1]

\* the opcodes that RFC 6455 reserves
ReservedOpcodes == (3..7) \cup (11..15)

\* the last step parsed a frame whose opcode is Continuation or reserved
OddFrameHandled ==
    /\ FrameHandled
    /\ (FirstByte % 16 = 0 \/ FirstByte % 16 \in ReservedOpcodes)

\* C34: a frame whose opcode is Continuation or a reserved value (0x3-0x7,
\* 0xB-0xF) is answered by no frame, the task goes on with the frames
\* that follow it in the buffer, and its session stays registered.
C34_UnknownOpcodeWarns ==
    OddFrameHandled =>
        /\ last.out = <<>>
        /\ h3.streams[last.s].pc = "parse"
        /\ h3.connections = last.connections

\* C32: the HTTP/3 registry never holds more sessions than the max_clients
\* the server was started with.
C32_H3Admission == Cardinality(DOMAIN h3.connections) <= MaxClients

\* the task of the stream is in its frame loop
InFrameLoop(s) == h3.streams[s].pc \in {"loop", "parse"}

\* C38: while the task of an upgraded stream is in its frame loop and its
\* connection is open, the registry holds the record of its session.
C38_H3RegistryPresence ==
    \A s \in DOMAIN h3.streams :
        (InFrameLoop(s) /\ h3.conn[h3.streams[s].c] = "open") =>
            h3.streams[s].c \in DOMAIN h3.connections

====
